---- MODULE Spec2Model ----
(***************************************************************************)
(* Model of the LazorKit TypeScript SDK (packages/ts-sdk):                 *)
(*   - the relay retry loop of core/paymaster/paymaster.ts,                *)
(*   - the wallet store actions of core/contract/transaction.ts            *)
(*     (connect, disconnect, signAndSendTransaction, signMessage),         *)
(*   - the deferred-execution protocol driven by                           *)
(*     core/contract/client/lazorkit.ts against the ledger program,        *)
(*   - the transaction builders of core/contract/client/lazorkit.ts and    *)
(*     core/contract/transaction.ts,                                       *)
(*   - the authorization message and cpiHash encoders.                     *)
(* Each part has its own specification over the shared variables; the      *)
(* variables of the other parts stay at their initial value.               *)
(***************************************************************************)
EXTENDS Integers, Sequences, FiniteSets, TLC

VARIABLES
    \* ---- relay retry loop (paymaster.ts) ----
    rPc,        \* "idle" | "attempt" | "delay" | "done"
    rMethod,    \* which of sign / signAndSend / signAndSendVersionedTransaction runs
    rMax,       \* maxRetries argument
    rBase,      \* baseDelay argument
    rAttempt,   \* the loop variable `attempt`
    rLog,       \* what the loop did so far: attempts and delays, in order
    rResult,    \* how the call settled: [st |-> "none" | "ok" | "err", val |-> ...]
    rLanded,    \* the attempts whose transaction the relay put on the ledger
    \* ---- wallet store session (transaction.ts, store) ----
    sWallet,     \* WalletState.wallet
    sConnecting, \* WalletState.isConnecting
    sSigning,    \* WalletState.isSigning
    sLoading,    \* WalletState.isLoading
    sError,      \* WalletState.error
    sStorage,    \* the wallet kept by StorageManager (localStorage)
    sCall,       \* the calls of the store's actions that have not returned yet
    \* ---- ledger (the wallet program's accounts of one smart wallet) ----
    lastNonce,   \* WalletState.lastNonce
    clock,       \* the ledger's Unix timestamp
    chunkAcct,   \* the Chunk account at each nonce: exists, cpiHash, rentRefundAddress
    \* ---- history of the ledger, kept for the properties ----
    life,        \* per nonce: "absent" | "committed" | "consumed" | "reclaimed"
    commits,     \* per nonce: how many create_chunk calls were accepted
    execs,       \* per nonce: how many execute_chunk calls were accepted
    lastTx,      \* the transaction the ledger processed in the last step, if any
    \* ---- clients of the wallet program ----
    flow,        \* the signAndSendTransaction / sendTransaction flows
    \* ---- one call of a LazorkitClient transaction builder ----
    bPc,         \* "idle" | "reading" | "blockhash" | "done"
    bMethod,     \* which *Txn method runs
    bParams,     \* its params argument
    bOpts,       \* its TransactionBuilderOptions argument
    bNet,        \* the network requests the call has issued, in order
    bTx,         \* the transaction it built
    bRes,        \* how the call settled
    bOut,        \* createSmartWalletTxn: the smartWalletId and smartWallet it returns
    \* ---- message and commitment encoders applied to two argument tuples ----
    mArgs,       \* the two argument tuples
    mPc,         \* "idle" | "args" | "built"
    mMsg,        \* the two authorization messages
    mHash,       \* the two cpiHash values
    mExec,       \* the two execute instructions (splitIndex, remaining accounts)
    \* ---- one call of verifySignatureBrowser ----
    vPc,         \* "idle" | "importKey" | "verify" | "done"
    vArgs,       \* signedPayload, signature, publicKey as handed in
    vRes,        \* how the call settled
    \* ---- the policy instruction of one message / transaction build ----
    pLedger,     \* WalletState.policyData on the ledger
    pPc,         \* "idle" | "read" | "resolve" | "done"
    pCall,       \* the method called and the policy instruction handed in
    pSnapshot,   \* the WalletState the call has read
    pPrev,       \* the WalletState the call before this one had read
    pSeen,       \* what the ledger held at some moment of the call
    pUsed,       \* the policy instruction the call builds over
    \* ---- LazorkitWalletAdapter ----
    aReady,      \* _readyState, fixed by the constructor
    aConnecting, \* _connecting
    aPublicKey,  \* _publicKey; `connected` is that it is not null
    aStorage,    \* the wallet kept by StorageManager
    aCall,       \* the connect / disconnect calls that have not returned yet
    \* ---- hand-off of a built transaction to the relay ----
    hPc,         \* "idle" | "built" | "sent"
    hSite,       \* the call site that builds and sends
    hPayload,    \* the caller's transactionOptions
    hTx,         \* the transaction the builder returned
    hSentAs,     \* the form the relay call takes it in
    \* ---- split indices of one execute_chunk instruction ----
    xPc,         \* "idle" | "args" | "built"
    xKeys,       \* the number of accounts of each CPI instruction
    xSplit,      \* what calculateSplitIndex returned
    xBytes,      \* the bytes handed to execute_chunk
    \* ---- DialogManager instances and the window's message events ----
    dMgr,        \* per DialogManager: creator, promise, listeners, timer, dialog
    dLast        \* the window message delivered in the last step, if any

relayVars == <<rPc, rMethod, rMax, rBase, rAttempt, rLog, rResult, rLanded>>
storeVars == <<sWallet, sConnecting, sSigning, sLoading, sError, sStorage, sCall>>

ledgerVars == <<lastNonce, clock, chunkAcct, life, commits, execs>>
chainVars == <<ledgerVars, lastTx, flow>>

buildVars == <<bPc, bMethod, bParams, bOpts, bNet, bTx, bRes, bOut>>
msgVars == <<mArgs, mPc, mMsg, mHash, mExec>>

verifyVars == <<vPc, vArgs, vRes>>

policyVars == <<pLedger, pPc, pCall, pSnapshot, pPrev, pSeen, pUsed>>

adapterVars == <<aReady, aConnecting, aPublicKey, aStorage, aCall>>

handoffVars == <<hPc, hSite, hPayload, hTx, hSentAs>>

splitVars == <<xPc, xKeys, xSplit, xBytes>>

dialogVars == <<dMgr, dLast>>

vars ==
    <<relayVars, storeVars, chainVars, buildVars, msgVars, verifyVars,
      policyVars, adapterVars, handoffVars, splitVars, dialogVars>>

\* What the steps of one part leave alone.
notRelay ==
    <<storeVars, chainVars, buildVars, msgVars, verifyVars, policyVars,
      adapterVars, handoffVars, splitVars, dialogVars>>
notStore ==
    <<relayVars, chainVars, buildVars, msgVars, verifyVars, policyVars,
      adapterVars, handoffVars, splitVars, dialogVars>>
notChain ==
    <<relayVars, storeVars, buildVars, msgVars, verifyVars, policyVars,
      adapterVars, handoffVars, splitVars, dialogVars>>
notBuild ==
    <<relayVars, storeVars, chainVars, msgVars, verifyVars, policyVars,
      adapterVars, handoffVars, splitVars, dialogVars>>
notMsg ==
    <<relayVars, storeVars, chainVars, buildVars, verifyVars, policyVars,
      adapterVars, handoffVars, splitVars, dialogVars>>

notVerify ==
    <<relayVars, storeVars, chainVars, buildVars, msgVars, policyVars,
      adapterVars, handoffVars, splitVars, dialogVars>>

notPolicy ==
    <<relayVars, storeVars, chainVars, buildVars, msgVars, verifyVars,
      adapterVars, handoffVars, splitVars, dialogVars>>

notAdapter ==
    <<relayVars, storeVars, chainVars, buildVars, msgVars, verifyVars,
      policyVars, handoffVars, splitVars, dialogVars>>

notHandoff ==
    <<relayVars, storeVars, chainVars, buildVars, msgVars, verifyVars,
      policyVars, adapterVars, splitVars, dialogVars>>

notSplit ==
    <<relayVars, storeVars, chainVars, buildVars, msgVars, verifyVars,
      policyVars, adapterVars, handoffVars, dialogVars>>

notDialog ==
    <<relayVars, storeVars, chainVars, buildVars, msgVars, verifyVars,
      policyVars, adapterVars, handoffVars, splitVars>>

None == "none"

(***************************************************************************)
(* Relay retry loop: Paymaster.sign / signAndSend /                        *)
(* signAndSendVersionedTransaction.  The three loops are the same code     *)
(* around a different attempt function.                                    *)
(***************************************************************************)
DefaultMaxRetries == 3
DefaultBaseDelay == 1000

\* largest maxRetries argument explored
MaxRetriesBound == 3

RelayMethods == {"sign", "signAndSend", "signAndSendVersionedTransaction"}
BaseDelays == {DefaultBaseDelay, 7}
RelayRetryArgs == -1..MaxRetriesBound
\* what an attempt can return / throw (fetch failure, !response.ok, data.error)
RelayValues == {"sigA", "sigB"}
\* What an attempt throws: a non-ok HTTP status, or the relay's data.error,
\* whose message may report that the passkey signature failed verification.
SignatureVerificationFailed == "SignatureVerificationFailed"
RelayErrors == {"HttpError", "RelayError", SignatureVerificationFailed}
GenericRetryError == "Failed after all retries"

RECURSIVE Pow2(_)
Pow2(n) == IF n <= 0 THEN 1 ELSE 2 * Pow2(n - 1)

\* Faulty variant: the body runs once before the condition is tested.
LoopContinues_DoWhile(attempt, maxRetries) ==
    attempt = 1 \/ attempt <= maxRetries

\* `attempt <= maxRetries`, the for-loop condition
LoopContinues(attempt, maxRetries) == attempt <= maxRetries

\* Faulty variant: no attempt is ever taken to be the last one.
IsLastAttempt_NeverLast(attempt, maxRetries) == attempt > maxRetries
\* `attempt === maxRetries`, the test in the catch block
IsLastAttempt(attempt, maxRetries) == attempt = maxRetries

\* Faulty variant: the exponent is attempt instead of attempt - 1.
BackoffDelay_OffByOne(baseDelay, attempt) == baseDelay * Pow2(attempt)
\* `baseDelay * Math.pow(2, attempt - 1)`
BackoffDelay(baseDelay, attempt) == baseDelay * Pow2(attempt - 1)

AttemptEv(k, out, val) == [ev |-> "attempt", k |-> k, out |-> out, val |-> val]
DelayEv(k, ms) == [ev |-> "delay", k |-> k, out |-> "delay", val |-> ms]

Pending == [st |-> "none", val |-> None]
Resolved(v) == [st |-> "ok", val |-> v]
Rejected(e) == [st |-> "err", val |-> e]

\* sign returns a signed transaction; the two signAndSend methods have the
\* relay submit it.
Submits(method) == method # "sign"

\* entering the for loop with attempt = a and maxRetries = mr: either the
\* body runs or the statement after the loop throws the generic error
RelayEnterLoop(a, mr) ==
    /\ rAttempt' = a
    /\ IF LoopContinues(a, mr)
       THEN rPc' = "attempt" /\ rResult' = Pending
       ELSE rPc' = "done" /\ rResult' = Rejected(GenericRetryError)

\* a caller invokes one of the three methods
RelayCall ==
    /\ rPc = "idle"
    /\ \E m \in RelayMethods, mr \in RelayRetryArgs, bd \in BaseDelays :
          /\ rMethod' = m
          /\ rMax' = mr
          /\ rBase' = bd
          /\ rLog' = <<>>
          /\ rLanded' = {}
          /\ RelayEnterLoop(1, mr)

\* `return await this.attempt...(transaction, attempt)` succeeds
RelayAttemptOk ==
    /\ rPc = "attempt"
    /\ \E v \in RelayValues :
          /\ rLog' = Append(rLog, AttemptEv(rAttempt, "ok", v))
          /\ rResult' = Resolved(v)
    /\ rPc' = "done"
    /\ rLanded' = IF Submits(rMethod) THEN rLanded \cup {rAttempt} ELSE rLanded
    /\ UNCHANGED <<rMethod, rMax, rBase, rAttempt>>

\* the attempt throws: rethrow on the last attempt, otherwise schedule the
\* backoff timer. The relay may have submitted the transaction before the
\* answer was lost or came back with a non-ok status.
RelayAttemptFail ==
    /\ rPc = "attempt"
    /\ \E landed \in BOOLEAN :
          /\ landed => Submits(rMethod)
          /\ rLanded' = IF landed THEN rLanded \cup {rAttempt} ELSE rLanded
    /\ \E e \in RelayErrors :
          /\ (rAttempt \in rLanded') => e = "HttpError"
          /\ IF IsLastAttempt(rAttempt, rMax)
             THEN /\ rLog' = Append(rLog, AttemptEv(rAttempt, "err", e))
                  /\ rResult' = Rejected(e)
                  /\ rPc' = "done"
             ELSE /\ rLog' = Append(Append(rLog, AttemptEv(rAttempt, "err", e)),
                                    DelayEv(rAttempt, BackoffDelay(rBase, rAttempt)))
                  /\ rResult' = rResult
                  /\ rPc' = "delay"
    /\ UNCHANGED <<rMethod, rMax, rBase, rAttempt>>

\* the setTimeout promise resolves: attempt++ and the loop condition
RelayDelayElapsed ==
    /\ rPc = "delay"
    /\ RelayEnterLoop(rAttempt + 1, rMax)
    /\ UNCHANGED <<rMethod, rMax, rBase, rLog, rLanded>>

\* the promise has settled; the Paymaster can be called again
RelayReturn ==
    /\ rPc = "done"
    /\ rPc' = "idle"
    /\ rMethod' = None /\ rMax' = 0 /\ rBase' = 0 /\ rAttempt' = 0
    /\ rLog' = <<>> /\ rResult' = Pending /\ rLanded' = {}

InitRelay ==
    /\ rPc = "idle" /\ rMethod = None /\ rMax = 0 /\ rBase = 0
    /\ rAttempt = 0 /\ rLog = <<>> /\ rResult = Pending /\ rLanded = {}

NextRelay ==
    \/ RelayCall /\ UNCHANGED notRelay
    \/ RelayAttemptOk /\ UNCHANGED notRelay
    \/ RelayAttemptFail /\ UNCHANGED notRelay
    \/ RelayDelayElapsed /\ UNCHANGED notRelay
    \/ RelayReturn /\ UNCHANGED notRelay

(***************************************************************************)
(* Wallet store session: connectAction, disconnectAction,                  *)
(* signAndSendTransactionAction and signMessageAction run against one      *)
(* zustand store.  A call is a promise; it advances one continuation at a  *)
(* time, and the continuations of different calls interleave.              *)
(***************************************************************************)
StoreCalls == {"p", "q", "r"}
TheWallet == "wallet1"
ActionFailure == "failure"

\* swallowed: a localStorage write or removal made for the call has thrown
\* inside storage.setItem / storage.removeItem.
IdleCall ==
    [kind |-> None, pc |-> "idle", existing |-> None, res |-> Pending,
     swallowed |-> FALSE]

InFlight(c) == sCall[c].pc \notin {"idle", "done"}
ConnectInFlight(c) == sCall[c].kind = "connect" /\ InFlight(c)
SignInFlight(c) ==
    sCall[c].kind \in {"signAndSendTransaction", "signMessage"} /\ InFlight(c)

Settle(c, res) == [sCall EXCEPT ![c].pc = "done", ![c].res = res]
Goto(c, pc) == [sCall EXCEPT ![c].pc = pc]

\* Faulty variant: the guards sit inside the try block, so the finally
\* block clears the flag of the call already in flight.
FlagAfterGuardThrow_Cleared(flag) ==
    FALSE

\* The guards throw before the try block is entered: neither the catch nor
\* the finally block runs, and the flag keeps its value.
FlagAfterGuardThrow(flag) ==
    flag

\* connectAction up to its first suspension: the guard, set(isConnecting),
\* and the synchronous localStorage read inside StorageManager.getWallet()
ConnectCall(c) ==
    /\ sCall[c].pc = "idle"
    /\ IF sConnecting
       THEN /\ sCall' = [sCall EXCEPT ![c] =
                   [kind |-> "connect", pc |-> "done", existing |-> None,
                    res |-> Rejected("Already connecting"),
                    swallowed |-> FALSE]]
            /\ sConnecting' = FlagAfterGuardThrow(sConnecting)
            /\ UNCHANGED <<sWallet, sSigning, sLoading, sError, sStorage>>
       ELSE /\ sConnecting' = TRUE
            /\ sError' = None
            /\ sCall' = [sCall EXCEPT ![c] =
                   [kind |-> "connect", pc |-> "getWallet", existing |-> sStorage,
                    res |-> Pending, swallowed |-> FALSE]]
            /\ UNCHANGED <<sWallet, sSigning, sLoading, sStorage>>

\* after `await StorageManager.getWallet()`: reconnect from storage, or open
\* the portal dialog
ConnectAfterGetWallet(c) ==
    /\ sCall[c].kind = "connect" /\ sCall[c].pc = "getWallet"
    /\ IF sCall[c].existing # None
       THEN /\ sWallet' = sCall[c].existing
            /\ sConnecting' = FALSE
            /\ sCall' = Settle(c, Resolved(sCall[c].existing))
       ELSE /\ sCall' = Goto(c, "dialog")
            /\ UNCHANGED <<sWallet, sConnecting>>
    /\ UNCHANGED <<sSigning, sLoading, sError, sStorage>>

\* Faulty variant: the flag is cleared on the success path only.
FlagAfterFailure_Kept(flag) ==
    flag

\* The outer `finally` of connectAction, signAndSendTransactionAction and
\* signMessageAction runs after the catch block has rethrown.
FlagAfterFailure(flag) ==
    FALSE

\* Faulty variant: the wallet is saved before the step that failed.
StorageAfterConnectFailure_Saved(stored) ==
    TheWallet

\* Every await that can reject (openConnect, getSmartWalletByCredentialHash,
\* getPayer, createSmartWalletTxn, signAndSend) comes before
\* StorageManager.saveWallet: a failing connect has written nothing.
StorageAfterConnectFailure(stored) ==
    stored

\* handleActionError followed by the `finally` of connectAction
ConnectFails(c) ==
    /\ sError' = ActionFailure
    /\ sConnecting' = FlagAfterFailure(sConnecting)
    /\ sCall' = Settle(c, Rejected(ActionFailure))
    /\ sStorage' = StorageAfterConnectFailure(sStorage)
    /\ UNCHANGED <<sWallet, sSigning, sLoading>>

\* dialogManager.openConnect() settles
ConnectDialogDone(c) ==
    /\ sCall[c].kind = "connect" /\ sCall[c].pc = "dialog"
    /\ \/ /\ sCall' = Goto(c, "ledger")
          /\ UNCHANGED <<sWallet, sConnecting, sSigning, sLoading, sError, sStorage>>
       \/ ConnectFails(c)

\* getSmartWalletByCredentialHash, and for a new wallet getPayer,
\* createSmartWalletTxn and paymaster.signAndSend, settle; on success
\* StorageManager.saveWallet starts and writes the wallet key, or localStorage
\* throws inside storage.setItem and nothing is written
ConnectLedgerDone(c) ==
    /\ sCall[c].kind = "connect" /\ sCall[c].pc = "ledger"
    /\ \/ /\ sStorage' = TheWallet
          /\ sCall' = Goto(c, "saveWallet")
          /\ UNCHANGED <<sWallet, sConnecting, sSigning, sLoading, sError>>
       \/ /\ sCall' = [sCall EXCEPT ![c].pc = "saveWallet",
                                     ![c].swallowed = TRUE]
          /\ UNCHANGED <<sWallet, sConnecting, sSigning, sLoading, sError,
                         sStorage>>
       \/ ConnectFails(c)

\* after `await StorageManager.saveWallet(walletInfo)`
ConnectAfterSaveWallet(c) ==
    /\ sCall[c].kind = "connect" /\ sCall[c].pc = "saveWallet"
    /\ sWallet' = TheWallet
    /\ sConnecting' = FALSE
    /\ sCall' = Settle(c, Resolved(TheWallet))
    /\ UNCHANGED <<sSigning, sLoading, sError, sStorage>>

\* disconnectAction up to its first suspension: StorageManager.clearWallet()
\* removes the wallet key, or localStorage throws and the key stays
DisconnectCall(c) ==
    /\ sCall[c].pc = "idle"
    /\ \E thrown \in BOOLEAN :
          /\ sStorage' = IF thrown THEN sStorage ELSE None
          /\ sCall' = [sCall EXCEPT ![c] =
                 [kind |-> "disconnect", pc |-> "clearWallet",
                  existing |-> None, res |-> Pending, swallowed |-> thrown]]
    /\ UNCHANGED <<sWallet, sConnecting, sSigning, sLoading, sError>>

\* after `await StorageManager.clearWallet()`: "Clear all state"
DisconnectAfterClear(c) ==
    /\ sCall[c].kind = "disconnect" /\ sCall[c].pc = "clearWallet"
    /\ sWallet' = None
    /\ sError' = None
    /\ sConnecting' = FALSE
    /\ sSigning' = FALSE
    /\ sLoading' = FALSE
    /\ sCall' = Settle(c, Resolved(None))
    /\ UNCHANGED sStorage

\* the guards shared by signAndSendTransactionAction and signMessageAction
SignGuard(c, kind, firstPc) ==
    /\ sCall[c].pc = "idle"
    /\ IF sSigning
       THEN /\ sCall' = [sCall EXCEPT ![c] =
                   [kind |-> kind, pc |-> "done", existing |-> None,
                    res |-> Rejected("Already signing"),
                    swallowed |-> FALSE]]
            /\ sSigning' = FlagAfterGuardThrow(sSigning)
            /\ UNCHANGED <<sWallet, sConnecting, sLoading, sError, sStorage>>
       ELSE IF sWallet = None
       THEN /\ sCall' = [sCall EXCEPT ![c] =
                   [kind |-> kind, pc |-> "done", existing |-> None,
                    res |-> Rejected("No wallet connected"),
                    swallowed |-> FALSE]]
            /\ sSigning' = FlagAfterGuardThrow(sSigning)
            /\ UNCHANGED <<sWallet, sConnecting, sLoading, sError, sStorage>>
       ELSE /\ sSigning' = TRUE
            /\ sError' = None
            /\ sCall' = [sCall EXCEPT ![c] =
                   [kind |-> kind, pc |-> firstPc, existing |-> sWallet,
                    res |-> Pending, swallowed |-> FALSE]]
            /\ UNCHANGED <<sWallet, sConnecting, sLoading, sStorage>>

\* the catch and finally blocks of the two sign actions
SignFails(c) ==
    /\ sError' = ActionFailure
    /\ sSigning' = FlagAfterFailure(sSigning)
    /\ sCall' = Settle(c, Rejected(ActionFailure))
    /\ UNCHANGED <<sWallet, sConnecting, sLoading, sStorage>>

SignSucceeds(c, v) ==
    /\ sSigning' = FALSE
    /\ sCall' = Settle(c, Resolved(v))
    /\ UNCHANGED <<sWallet, sConnecting, sLoading, sError, sStorage>>

SignAndSendCall(c) == SignGuard(c, "signAndSendTransaction", "prepare")

\* getPayer, getBlockchainTimestamp, buildAuthorizationMessage and
\* getLatestBlockhash settle
SignAndSendPrepared(c) ==
    /\ sCall[c].kind = "signAndSendTransaction" /\ sCall[c].pc = "prepare"
    /\ \/ /\ sCall' = Goto(c, "dialog")
          /\ UNCHANGED <<sWallet, sConnecting, sSigning, sLoading, sError, sStorage>>
       \/ SignFails(c)

\* dialogManager.openSign() settles
SignAndSendDialogDone(c) ==
    /\ sCall[c].kind = "signAndSendTransaction" /\ sCall[c].pc = "dialog"
    /\ \/ /\ sCall' = Goto(c, "submit")
          /\ UNCHANGED <<sWallet, sConnecting, sSigning, sLoading, sError, sStorage>>
       \/ SignFails(c)

\* createChunkTxn .. the relay's answer to the execute_chunk transaction
SignAndSendSubmitted(c) ==
    /\ sCall[c].kind = "signAndSendTransaction" /\ sCall[c].pc = "submit"
    /\ \/ SignSucceeds(c, "txSignature")
       \/ SignFails(c)

SignMessageCall(c) == SignGuard(c, "signMessage", "dialog")

\* dialogManager.openSignMessage() settles
SignMessageDialogDone(c) ==
    /\ sCall[c].kind = "signMessage" /\ sCall[c].pc = "dialog"
    /\ \/ SignSucceeds(c, "msgSignature")
       \/ SignFails(c)

\* the caller has seen the settled promise
StoreCallReturns(c) ==
    /\ sCall[c].pc = "done"
    /\ sCall' = [sCall EXCEPT ![c] = IdleCall]
    /\ UNCHANGED <<sWallet, sConnecting, sSigning, sLoading, sError, sStorage>>

InitStore ==
    /\ sWallet = None /\ sConnecting = FALSE /\ sSigning = FALSE
    /\ sLoading = FALSE /\ sError = None /\ sStorage = None
    /\ sCall = [c \in StoreCalls |-> IdleCall]

NextStore ==
    \E c \in StoreCalls :
       \/ ConnectCall(c) /\ UNCHANGED notStore
       \/ ConnectAfterGetWallet(c) /\ UNCHANGED notStore
       \/ ConnectDialogDone(c) /\ UNCHANGED notStore
       \/ ConnectLedgerDone(c) /\ UNCHANGED notStore
       \/ ConnectAfterSaveWallet(c) /\ UNCHANGED notStore
       \/ DisconnectCall(c) /\ UNCHANGED notStore
       \/ DisconnectAfterClear(c) /\ UNCHANGED notStore
       \/ SignAndSendCall(c) /\ UNCHANGED notStore
       \/ SignAndSendPrepared(c) /\ UNCHANGED notStore
       \/ SignAndSendDialogDone(c) /\ UNCHANGED notStore
       \/ SignAndSendSubmitted(c) /\ UNCHANGED notStore
       \/ SignMessageCall(c) /\ UNCHANGED notStore
       \/ SignMessageDialogDone(c) /\ UNCHANGED notStore
       \/ StoreCallReturns(c) /\ UNCHANGED notStore


\* ---------------------------------------------------------------------
\* Deferred execution: the wallet program's ledger and its clients
\* ---------------------------------------------------------------------

MaxNonce == 2

\* The Unix timestamps the ledger clock shows, in order.
ClockValues == {1, 2}

Nonces == 0..(MaxNonce - 1)
FlowIds == {"f1", "f2"}
InstrLists == {<<"ixA">>, <<"ixB">>}
Wallet == "smartWallet"
Payer == "feePayer"

\* ---- values ----

NoMsg ==
    [action |-> None, wallet |-> None, nonce |-> -1, ts |-> 0, cpiHash |-> <<>>]

NoTxn ==
    [kind |-> None, sigOver |-> NoMsg, ts |-> 0, cpiHash |-> <<>>,
     chunkNonce |-> -1, instrs |-> <<>>, cpiSigners |-> <<>>,
     payer |-> None, refund |-> None]

NoChunk ==
    [exists |-> FALSE, cpiHash |-> <<>>, rentRefundAddress |-> None]

NoSubmission ==
    [tx |-> NoTxn, ok |-> FALSE]

\* calculateCpiHash: a collision-free digest of the instruction list, the
\* smart wallet and the signer list.
CpiHash(instrs, smartWallet, signers) ==
    <<instrs, smartWallet, signers>>

\* buildCreateChunkMessage: the bytes the passkey signs.
BuildCreateChunkMessage(smartWallet, nonce, timestamp, instrs, signers) ==
    [action |-> "create_chunk", wallet |-> smartWallet, nonce |-> nonce,
     ts |-> timestamp, cpiHash |-> CpiHash(instrs, smartWallet, signers)]

\* ---- the wallet program ----

\* The signer set of a transaction as the program sees it: the signers the
\* caller named, and the fee payer, which signs every transaction.
ProgramSigners(tx) ==
    tx.cpiSigners \o <<tx.payer>>

\* The message the program rebuilds from the create_chunk arguments and its
\* own lastNonce; the passkey signature must be over exactly these bytes.
ExpectedCreateMessage(tx) ==
    [action |-> "create_chunk", wallet |-> Wallet, nonce |-> lastNonce,
     ts |-> tx.ts, cpiHash |-> tx.cpiHash]

\* Faulty variant: the program accepts any nonce.
NonceValid_Any(txNonce, walletNonce) ==
    TRUE

NonceValid(txNonce, walletNonce) ==
    txNonce = walletNonce

\* Faulty variant: create_chunk leaves lastNonce as it is.
NonceAfterCreate_Stuck(n) ==
    n

NonceAfterCreate(n) ==
    n + 1

\* Faulty variant: execute_chunk does not compare the hashes.
HashMatches_Any(recomputed, committed) ==
    TRUE

HashMatches(recomputed, committed) ==
    recomputed = committed

\* Faulty variant: execute_chunk leaves the Chunk account in place.
ChunkAfterExecute_Kept(c) ==
    c

ChunkAfterExecute(c) ==
    NoChunk

CreateChunkAccepts(tx) ==
    /\ tx.kind = "create_chunk"
    /\ tx.chunkNonce \in Nonces
    /\ NonceValid(tx.chunkNonce, lastNonce)
    /\ ~chunkAcct[tx.chunkNonce].exists
    /\ tx.sigOver.action = "create_chunk"
    /\ tx.sigOver.wallet = Wallet
    /\ NonceValid(tx.sigOver.nonce, lastNonce)
    /\ tx.sigOver.ts = tx.ts
    /\ tx.sigOver.cpiHash = tx.cpiHash

ExecuteChunkAccepts(tx) ==
    /\ tx.kind = "execute_chunk"
    /\ tx.chunkNonce \in Nonces
    /\ chunkAcct[tx.chunkNonce].exists
    /\ tx.refund = chunkAcct[tx.chunkNonce].rentRefundAddress
    /\ HashMatches(CpiHash(tx.instrs, Wallet, ProgramSigners(tx)),
                   chunkAcct[tx.chunkNonce].cpiHash)

CloseChunkAccepts(tx) ==
    /\ tx.kind = "close_chunk"
    /\ tx.chunkNonce \in Nonces
    /\ chunkAcct[tx.chunkNonce].exists
    /\ tx.refund = chunkAcct[tx.chunkNonce].rentRefundAddress

ApplyCreateChunk(tx) ==
    /\ lastNonce' = NonceAfterCreate(lastNonce)
    /\ chunkAcct' = [chunkAcct EXCEPT ![tx.chunkNonce] =
                        [exists |-> TRUE, cpiHash |-> tx.cpiHash,
                         rentRefundAddress |-> tx.payer]]
    /\ life' = [life EXCEPT ![tx.chunkNonce] = "committed"]
    /\ commits' = [commits EXCEPT ![tx.chunkNonce] = @ + 1]
    /\ UNCHANGED <<clock, execs>>

ApplyExecuteChunk(tx) ==
    /\ chunkAcct' = [chunkAcct EXCEPT ![tx.chunkNonce] = ChunkAfterExecute(@)]
    /\ life' = [life EXCEPT ![tx.chunkNonce] = "consumed"]
    /\ execs' = [execs EXCEPT ![tx.chunkNonce] = @ + 1]
    /\ UNCHANGED <<lastNonce, clock, commits>>

ApplyCloseChunk(tx) ==
    /\ chunkAcct' = [chunkAcct EXCEPT ![tx.chunkNonce] = NoChunk]
    /\ life' = [life EXCEPT ![tx.chunkNonce] = "reclaimed"]
    /\ UNCHANGED <<lastNonce, clock, commits, execs>>

TxAccepted(tx) ==
    \/ CreateChunkAccepts(tx)
    \/ ExecuteChunkAccepts(tx)
    \/ CloseChunkAccepts(tx)

\* The ledger processes one transaction atomically: an accepted instruction
\* takes effect, a rejected one changes nothing.
LedgerProcess(tx) ==
    /\ lastTx' = [tx |-> tx, ok |-> TxAccepted(tx)]
    /\ IF CreateChunkAccepts(tx) THEN ApplyCreateChunk(tx)
       ELSE IF ExecuteChunkAccepts(tx) THEN ApplyExecuteChunk(tx)
       ELSE IF CloseChunkAccepts(tx) THEN ApplyCloseChunk(tx)
       ELSE UNCHANGED ledgerVars

Tick ==
    /\ clock' \in ClockValues
    /\ clock' > clock
    /\ lastTx' = NoSubmission
    /\ UNCHANGED <<lastNonce, chunkAcct, life, commits, execs, flow>>

\* ---- the contract client (LazorkitClient) ----

\* Faulty variant: the hash covers the payer only.
CreateChunkSigners_PayerOnly(cpiSigners, payer) ==
    <<payer>>

\* createChunkTxn and buildAuthorizationMessage hash and sign over the
\* caller's signers followed by the payer.
CreateChunkSigners(cpiSigners, payer) ==
    cpiSigners \o <<payer>>

\* buildCreateChunkIns derives the Chunk address from the lastNonce it reads
\* when the instruction is built.
BuildCreateChunkTxn(passkeySignature, instrs, timestamp, cpiSigners) ==
    [kind |-> "create_chunk", sigOver |-> passkeySignature, ts |-> timestamp,
     cpiHash |-> CpiHash(instrs, Wallet, CreateChunkSigners(cpiSigners, Payer)),
     chunkNonce |-> lastNonce, instrs |-> <<>>, cpiSigners |-> <<>>,
     payer |-> Payer, refund |-> None]

\* buildExecuteChunkIns addresses the Chunk at lastNonce - 1.
ExecuteTargetNonce(walletNonce) ==
    walletNonce - 1

\* fetchChunkContext throws when the account does not exist.
ChunkFetchable(nonce) ==
    /\ nonce \in Nonces
    /\ chunkAcct[nonce].exists

BuildExecuteChunkTxn(instrs, cpiSigners) ==
    [kind |-> "execute_chunk", sigOver |-> NoMsg, ts |-> 0, cpiHash |-> <<>>,
     chunkNonce |-> ExecuteTargetNonce(lastNonce), instrs |-> instrs,
     cpiSigners |-> cpiSigners, payer |-> Payer,
     refund |-> chunkAcct[ExecuteTargetNonce(lastNonce)].rentRefundAddress]

\* assertPositiveBN: the nonce must not be negative.
AssertPositiveBN(n) ==
    n >= 0

\* buildCloseChunkIns addresses the Chunk at the nonce it is given.
CloseTargetNonce(nonce) ==
    nonce

BuildCloseChunkTxn(nonce) ==
    [kind |-> "close_chunk", sigOver |-> NoMsg, ts |-> 0, cpiHash |-> <<>>,
     chunkNonce |-> CloseTargetNonce(nonce), instrs |-> <<>>,
     cpiSigners |-> <<>>, payer |-> Payer,
     refund |-> chunkAcct[CloseTargetNonce(nonce)].rentRefundAddress]

\* ---- signAndSendTransaction (store action) / sendTransaction (adapter) ----

\* A flow's locals; res is what the last call returned to its caller.
IdleFlow ==
    [pc |-> "idle", instrs |-> <<>>, ts |-> 0, nonce |-> -1, msg |-> NoMsg,
     signed |-> NoMsg, createTx |-> NoTxn, execTx |-> NoTxn, res |-> Pending]

FlowStep(f, pc) ==
    /\ flow[f].pc = pc
    /\ lastTx' = NoSubmission
    /\ UNCHANGED ledgerVars

FlowSet(f, r) ==
    flow' = [flow EXCEPT ![f] = r]

\* The promise settles and the flow's locals are gone.
FlowSettled(res) ==
    [IdleFlow EXCEPT !.res = res]

\* The caller passes the instruction list; the action passes its guards,
\* reads the payer and timestamp = await getBlockchainTimestamp(connection),
\* then calls buildAuthorizationMessage, which requests the wallet state.
FlowStart(f, instrs) ==
    /\ FlowStep(f, "idle")
    /\ lastNonce < MaxNonce
    /\ FlowSet(f, [IdleFlow EXCEPT !.pc = "msgFetch", !.instrs = instrs,
                                   !.ts = clock])

\* buildAuthorizationMessage, CreateChunk without a policy instruction:
\* smartWalletConfig arrives; buildCheckPolicyIx is awaited next.
FlowMsgFetched(f) ==
    /\ FlowStep(f, "msgFetch")
    /\ FlowSet(f, [flow[f] EXCEPT !.pc = "msgPolicy", !.nonce = lastNonce])

\* The nonce written into the message is smartWalletConfig.lastNonce, the
\* value read before buildCheckPolicyIx was awaited.
MessageNonce(f) ==
    flow[f].nonce

\* buildCheckPolicyIx returns; the message is built and the signing dialog
\* is opened on it.
FlowMsgBuilt(f) ==
    /\ FlowStep(f, "msgPolicy")
    /\ FlowSet(f, [flow[f] EXCEPT
            !.pc = "sign",
            !.msg = BuildCreateChunkMessage(Wallet, MessageNonce(f),
                        flow[f].ts, flow[f].instrs,
                        CreateChunkSigners(<<>>, Payer))])

\* Faulty variant: the timestamp is read again for create_chunk.
CreateChunkTimestamp_Reread(f) ==
    clock

\* createChunkTxn is given the timestamp of the signed message.
CreateChunkTimestamp(f) ==
    flow[f].ts

\* executeChunkTxn is given the instruction list of the signed message.
ExecuteChunkInstructions(f) ==
    flow[f].instrs

\* The authenticator signs the challenge it was shown; createChunkTxn builds
\* the create_chunk transaction around that signature.
FlowSigned(f) ==
    /\ FlowStep(f, "sign")
    /\ FlowSet(f, [flow[f] EXCEPT
            !.pc = "createSend",
            !.signed = flow[f].msg,
            !.createTx = BuildCreateChunkTxn(flow[f].msg, flow[f].instrs,
                             CreateChunkTimestamp(f), <<>>)])

\* The user dismisses the dialog, or the dialog fails.
FlowSignRejected(f) ==
    /\ FlowStep(f, "sign")
    /\ FlowSet(f, FlowSettled(Rejected(ActionFailure)))

\* The relay submits create_chunk and the ledger processes it; the flow
\* goes on only when the program accepted it.
FlowCreateLanded(f) ==
    /\ flow[f].pc = "createSend"
    /\ flow[f].createTx.chunkNonce < MaxNonce
    /\ LedgerProcess(flow[f].createTx)
    /\ FlowSet(f, IF TxAccepted(flow[f].createTx)
                  THEN [flow[f] EXCEPT !.pc = "executeTxn"]
                  ELSE FlowSettled(Rejected(ActionFailure)))

\* The relay returns a signature for a create_chunk the program rejects:
\* confirmTransaction resolves with the error in its value, which the
\* store action does not read, and the adapter does not confirm at all.
FlowCreateUnconfirmed(f) ==
    /\ flow[f].pc = "createSend"
    /\ flow[f].createTx.chunkNonce < MaxNonce
    /\ ~TxAccepted(flow[f].createTx)
    /\ LedgerProcess(flow[f].createTx)
    /\ FlowSet(f, [flow[f] EXCEPT !.pc = "executeTxn"])

\* The relay fails on every attempt, or the client stops here.
FlowCreateRelayFailed(f) ==
    /\ FlowStep(f, "createSend")
    /\ FlowSet(f, FlowSettled(Rejected(ActionFailure)))

\* executeChunkTxn builds the transaction from the ledger as it is now.
FlowExecuteTxnBuilt(f) ==
    /\ FlowStep(f, "executeTxn")
    /\ FlowSet(f, IF ChunkFetchable(ExecuteTargetNonce(lastNonce))
                  THEN [flow[f] EXCEPT
                          !.pc = "execSend",
                          !.execTx = BuildExecuteChunkTxn(
                                        ExecuteChunkInstructions(f), <<>>)]
                  ELSE FlowSettled(Rejected(ActionFailure)))

FlowExecuteLanded(f) ==
    /\ flow[f].pc = "execSend"
    /\ LedgerProcess(flow[f].execTx)
    /\ FlowSet(f, IF TxAccepted(flow[f].execTx)
                  THEN FlowSettled(Resolved("signature"))
                  ELSE FlowSettled(Rejected(ActionFailure)))

FlowExecuteRelayFailed(f) ==
    /\ FlowStep(f, "execSend")
    /\ FlowSet(f, FlowSettled(Rejected(ActionFailure)))

\* ---- direct calls of executeChunkTxn / closeChunkTxn ----

CloseNonceArgs == -1..(MaxNonce - 1)

\* A caller of executeChunkTxn({payer, smartWallet, cpiInstructions}) gets a
\* transaction for the Chunk at lastNonce - 1 and submits it; the call
\* throws, and nothing is submitted, when that Chunk cannot be fetched.
ExecuteChunkCall(instrs) ==
    /\ ChunkFetchable(ExecuteTargetNonce(lastNonce))
    /\ LedgerProcess(BuildExecuteChunkTxn(instrs, <<>>))
    /\ UNCHANGED flow

\* A caller of closeChunkTxn({payer, smartWallet, nonce}) gets a transaction
\* for the Chunk at that nonce and submits it; the call throws, and nothing
\* is submitted, on a negative nonce or when the Chunk cannot be fetched.
CloseChunkCall(nonce) ==
    /\ AssertPositiveBN(nonce)
    /\ ChunkFetchable(CloseTargetNonce(nonce))
    /\ LedgerProcess(BuildCloseChunkTxn(nonce))
    /\ UNCHANGED flow

InitChain ==
    /\ lastNonce = 0
    /\ clock = 1
    /\ chunkAcct = [n \in Nonces |-> NoChunk]
    /\ life = [n \in Nonces |-> "absent"]
    /\ commits = [n \in Nonces |-> 0]
    /\ execs = [n \in Nonces |-> 0]
    /\ lastTx = NoSubmission
    /\ flow = [f \in FlowIds |-> IdleFlow]

\* The steps a started flow takes on its own.
FlowContinue(f) ==
    \/ FlowMsgFetched(f)
    \/ FlowMsgBuilt(f)
    \/ FlowSigned(f)
    \/ FlowCreateLanded(f)
    \/ FlowCreateUnconfirmed(f)
    \/ FlowExecuteTxnBuilt(f)
    \/ FlowExecuteLanded(f)

NextChain ==
    \/ Tick /\ UNCHANGED notChain
    \/ \E f \in FlowIds, l \in InstrLists :
          FlowStart(f, l) /\ UNCHANGED notChain
    \/ \E f \in FlowIds : FlowMsgFetched(f) /\ UNCHANGED notChain
    \/ \E f \in FlowIds : FlowMsgBuilt(f) /\ UNCHANGED notChain
    \/ \E f \in FlowIds : FlowSigned(f) /\ UNCHANGED notChain
    \/ \E f \in FlowIds : FlowSignRejected(f) /\ UNCHANGED notChain
    \/ \E f \in FlowIds : FlowCreateLanded(f) /\ UNCHANGED notChain
    \/ \E f \in FlowIds : FlowCreateUnconfirmed(f) /\ UNCHANGED notChain
    \/ \E f \in FlowIds : FlowCreateRelayFailed(f) /\ UNCHANGED notChain
    \/ \E f \in FlowIds : FlowExecuteTxnBuilt(f) /\ UNCHANGED notChain
    \/ \E f \in FlowIds : FlowExecuteLanded(f) /\ UNCHANGED notChain
    \/ \E f \in FlowIds : FlowExecuteRelayFailed(f) /\ UNCHANGED notChain
    \/ \E l \in InstrLists :
          ExecuteChunkCall(l) /\ UNCHANGED notChain
    \/ \E n \in CloseNonceArgs :
          CloseChunkCall(n) /\ UNCHANGED notChain

\* ---------------------------------------------------------------------
\* Transaction builders: createSmartWalletTxn, executeTxn, createChunkTxn,
\* executeChunkTxn, closeChunkTxn and buildTransaction
\* ---------------------------------------------------------------------

BuildMethods ==
    {"createSmartWalletTxn", "executeTxn", "createChunkTxn",
     "executeChunkTxn", "closeChunkTxn"}

\* params.smartWalletId: absent, or a wallet id (0 included).
SuppliedWalletIds ==
    {[defined |-> FALSE, id |-> 0], [defined |-> TRUE, id |-> 0],
     [defined |-> TRUE, id |-> 42]}

\* What generateWalletId() can draw.
GeneratedWalletIds == {7, 42}

\* walletPdas.smartWallet: the address derived from the seed and the id.
SmartWalletPda(walletId) ==
    <<"smart_wallet", walletId>>

NoWalletOut == [smartWalletId |-> -1, smartWallet |-> <<>>]

\* Faulty variant: a fresh id is drawn whatever the caller supplied.
ChooseWalletId_AlwaysGenerated(supplied, generated) ==
    generated

\* params.smartWalletId ?? this.generateWalletId()
ChooseWalletId(supplied, generated) ==
    IF supplied.defined THEN supplied.id ELSE generated

\* getSmartWalletPubkey
GetSmartWalletPubkey(walletId) ==
    SmartWalletPda(walletId)

\* createSmartWalletTxn: the id and the address it returns beside the
\* transaction.
CreateSmartWalletOut(p, generated) ==
    LET smartWalletId == ChooseWalletId(p.smartWalletId, generated)
    IN  [smartWalletId |-> smartWalletId,
         smartWallet |-> GetSmartWalletPubkey(smartWalletId)]

\* params: whether the addresses are well formed, whether the instruction
\* (list) is well formed, and the amount / timestamp / nonce.
BuildParams ==
    [addressesOk : BOOLEAN, instructionsOk : BOOLEAN, number : {-1, 0, 1},
     smartWalletId : SuppliedWalletIds]

\* options.computeUnitLimit: absent, or a number (0 included).
ComputeUnitLimits ==
    {[defined |-> FALSE, units |-> 0], [defined |-> TRUE, units |-> 0],
     [defined |-> TRUE, units |-> 200000]}

\* options.addressLookupTables: absent, empty, or some tables.
LookupTableOptions ==
    {[defined |-> FALSE, tables |-> <<>>], [defined |-> TRUE, tables |-> <<>>],
     [defined |-> TRUE, tables |-> <<"lutA">>],
     [defined |-> TRUE, tables |-> <<"lutA", "lutB">>]}

\* options.recentBlockhash: absent, or supplied by the caller.
BlockhashOptions == {None, "callerBlockhash"}

BuildOptions ==
    [computeUnitLimit : ComputeUnitLimits,
     addressLookupTables : LookupTableOptions,
     recentBlockhash : BlockhashOptions]

NoOptions ==
    [computeUnitLimit |-> [defined |-> FALSE, units |-> 0],
     addressLookupTables |-> [defined |-> FALSE, tables |-> <<>>],
     recentBlockhash |-> None]

NoParams ==
    [addressesOk |-> TRUE, instructionsOk |-> TRUE, number |-> 0,
     smartWalletId |-> [defined |-> FALSE, id |-> 0]]

NoBuiltTx ==
    [instructions |-> <<>>, isVersioned |-> FALSE, signatures |-> <<>>,
     recentBlockhash |-> None]

\* validate*Params: the first statement of every *Txn method.
ValidateParams(method, p) ==
    /\ p.addressesOk
    /\ (method # "closeChunkTxn") => p.instructionsOk
    /\ (method # "executeChunkTxn") => AssertPositiveBN(p.number)

\* executeTxn and createChunkTxn put the passkey verification instruction
\* in front of the wallet instruction; the other builders have none.
Authenticated(method) ==
    method \in {"executeTxn", "createChunkTxn"}

\* The ledger reads a builder issues after validation: the wallet state
\* (executeTxn, createChunkTxn, executeChunkTxn) or the Chunk (closeChunkTxn).
LedgerReads(method) ==
    IF method = "createSmartWalletTxn" THEN <<>> ELSE <<"ledgerRead">>

ComputeUnitLimitIx(units) ==
    [kind |-> "setComputeUnitLimit", arg |-> units]

AuthIx ==
    [kind |-> "passkeyVerification", arg |-> -1]

\* The wallet program instruction; arg is its verifyInstructionIndex.
WalletIx(method, verifyInstructionIndex) ==
    [kind |-> method, arg |-> verifyInstructionIndex]

PrependComputeUnitLimit(instructions, computeUnitLimit) ==
    IF ~computeUnitLimit.defined
    THEN instructions
    ELSE <<ComputeUnitLimitIx(computeUnitLimit.units)>> \o instructions

CombineInstructionsWithAuth(authInstruction, smartWalletInstructions) ==
    <<authInstruction>> \o smartWalletInstructions

\* Faulty variant: the index ignores the compute-budget instruction.
CalculateVerifyInstructionIndex_Zero(computeUnitLimit) ==
    0

CalculateVerifyInstructionIndex(computeUnitLimit) ==
    IF computeUnitLimit.defined THEN 1 ELSE 0

\* The instruction list a *Txn method hands to buildTransaction.
MethodInstructions(method, options) ==
    IF Authenticated(method)
    THEN CombineInstructionsWithAuth(AuthIx,
            <<WalletIx(method,
                CalculateVerifyInstructionIndex(options.computeUnitLimit))>>)
    ELSE <<WalletIx(method, -1)>>

\* Faulty variant: the versioned form whenever the option is present.
UseVersioned_WhenDefined(addressLookupTables) ==
    addressLookupTables.defined

\* lookupTables = addressLookupTables ? addressLookupTables : [];
\* the versioned form is taken when lookupTables.length > 0.
UseVersioned(addressLookupTables) ==
    Len(IF addressLookupTables.defined
        THEN addressLookupTables.tables ELSE <<>>) > 0

BuildTransaction(instructions, options, recentBlockhash) ==
    [instructions |->
        PrependComputeUnitLimit(instructions, options.computeUnitLimit),
     isVersioned |-> UseVersioned(options.addressLookupTables),
     signatures |-> <<>>,
     recentBlockhash |-> recentBlockhash]

BuildSettle(res, tx) ==
    /\ bPc' = "done"
    /\ bRes' = res
    /\ bTx' = tx

\* Faulty variant: the parameters are checked after the ledger was read.
ReadsBeforeValidation_Always(method) ==
    LedgerReads(method)

\* The requests issued before validate*Params runs: none.
ReadsBeforeValidation(method) ==
    <<>>

\* A *Txn method is called: validation, then the first ledger read.
BuildCall(method, p, o) ==
    /\ bPc = "idle"
    /\ bMethod' = method
    /\ bParams' = p
    /\ bOpts' = o
    /\ IF ~ValidateParams(method, p)
       THEN /\ BuildSettle(Rejected("ValidationError"), NoBuiltTx)
            /\ bNet' = ReadsBeforeValidation(method)
            /\ bOut' = NoWalletOut
       ELSE /\ bPc' = "reading"
            /\ bNet' = ReadsBeforeValidation(method) \o LedgerReads(method)
            /\ IF method = "createSmartWalletTxn"
               THEN \E generated \in GeneratedWalletIds :
                        bOut' = CreateSmartWalletOut(p, generated)
               ELSE bOut' = NoWalletOut
            /\ UNCHANGED <<bTx, bRes>>

\* The reads settle and the instruction is built; buildTransaction uses the
\* caller's blockhash or requests the latest one.
BuildReadDone ==
    /\ bPc = "reading"
    /\ UNCHANGED <<bMethod, bParams, bOpts, bOut>>
    /\ \/ /\ BuildSettle(Rejected("NetworkError"), NoBuiltTx)
          /\ UNCHANGED bNet
       \/ /\ bOpts.recentBlockhash # None
          /\ BuildSettle(Resolved("transaction"),
                BuildTransaction(MethodInstructions(bMethod, bOpts), bOpts,
                                 bOpts.recentBlockhash))
          /\ UNCHANGED bNet
       \/ /\ bOpts.recentBlockhash = None
          /\ bPc' = "blockhash"
          /\ bNet' = Append(bNet, "getLatestBlockhash")
          /\ UNCHANGED <<bTx, bRes>>

\* connection.getLatestBlockhash() settles.
BuildBlockhashDone ==
    /\ bPc = "blockhash"
    /\ UNCHANGED <<bMethod, bParams, bOpts, bNet, bOut>>
    /\ \/ BuildSettle(Rejected("NetworkError"), NoBuiltTx)
       \/ BuildSettle(Resolved("transaction"),
             BuildTransaction(MethodInstructions(bMethod, bOpts), bOpts,
                              "latestBlockhash"))

BuildReturns ==
    /\ bPc = "done"
    /\ bPc' = "idle"
    /\ bMethod' = None
    /\ bParams' = NoParams
    /\ bOpts' = NoOptions
    /\ bNet' = <<>>
    /\ bTx' = NoBuiltTx
    /\ bRes' = Pending
    /\ bOut' = NoWalletOut

InitBuild ==
    /\ bPc = "idle"
    /\ bMethod = None
    /\ bParams = NoParams
    /\ bOpts = NoOptions
    /\ bNet = <<>>
    /\ bTx = NoBuiltTx
    /\ bRes = Pending
    /\ bOut = NoWalletOut

NextBuild ==
    \/ \E m \in BuildMethods, p \in BuildParams, o \in BuildOptions :
          BuildCall(m, p, o) /\ UNCHANGED notBuild
    \/ BuildReadDone /\ UNCHANGED notBuild
    \/ BuildBlockhashDone /\ UNCHANGED notBuild
    \/ BuildReturns /\ UNCHANGED notBuild

\* ---------------------------------------------------------------------
\* Encoders: the authorization message and the cpiHash commitment
\* ---------------------------------------------------------------------

Key(pubkey, isSigner, isWritable) ==
    [pubkey |-> pubkey, isSigner |-> isSigner, isWritable |-> isWritable]

Ix(programId, keys, data) ==
    [programId |-> programId, keys |-> keys, data |-> data]

\* A transfer-like instruction and its neighbours: one account flag changed,
\* one data byte changed, one account added, another program.
IxA == Ix("progA", <<Key("acc1", FALSE, TRUE)>>, <<"01", "02">>)
IxAFlag == Ix("progA", <<Key("acc1", TRUE, TRUE)>>, <<"01", "02">>)
IxAData == Ix("progA", <<Key("acc1", FALSE, TRUE)>>, <<"01", "03">>)
IxAKeys ==
    Ix("progA", <<Key("acc1", FALSE, TRUE), Key("acc2", FALSE, FALSE)>>,
       <<"01", "02">>)
IxB == Ix("progB", <<Key("acc1", FALSE, TRUE)>>, <<"01", "02">>)

PolicyIxs ==
    {Ix("policy", <<Key("device", TRUE, FALSE)>>, <<"aa">>),
     Ix("policy", <<Key("device", TRUE, FALSE), Key("acc1", FALSE, FALSE)>>,
        <<"ab">>)}

SingleIxLists == {<<IxA>>, <<IxAFlag>>, <<IxAData>>, <<IxAKeys>>, <<IxB>>}

EncoderIxLists == SingleIxLists \cup {<<IxA, IxB>>}

EncoderWallets == {"smartWallet", "otherWallet"}

EncoderSigners == {<<>>, <<"s1", "s2">>, <<"s2", "s1">>}

\* (nonce, timestamp) pairs.
EncoderNonceTimes == {<<0, 1>>, <<1, 1>>, <<0, 2>>}

\* The arguments of buildAuthorizationMessage once the nonce is read;
\* Execute carries one instruction, CreateChunk a list.
EncoderArgs ==
    {a \in [action : {"execute", "create_chunk"},
            smartWallet : EncoderWallets,
            nonceTime : EncoderNonceTimes,
            policyInstruction : PolicyIxs,
            cpiInstructions : EncoderIxLists,
            cpiSigners : EncoderSigners] :
        a.action = "execute" => a.cpiInstructions \in SingleIxLists}

Bit(b) == IF b THEN "1" ELSE "0"

RECURSIVE SerializeKeys(_)
SerializeKeys(keys) ==
    IF keys = <<>> THEN <<>>
    ELSE <<Head(keys).pubkey, Bit(Head(keys).isSigner),
           Bit(Head(keys).isWritable)>> \o SerializeKeys(Tail(keys))

\* Program id, account list with its flags, data; the two lists are
\* length-prefixed.
SerializeIx(ix) ==
    <<ix.programId, ToString(Len(ix.keys))>> \o SerializeKeys(ix.keys)
        \o <<ToString(Len(ix.data))>> \o ix.data

RECURSIVE SerializeIxs(_)
SerializeIxs(ixs) ==
    IF ixs = <<>> THEN <<>>
    ELSE SerializeIx(Head(ixs)) \o SerializeIxs(Tail(ixs))

MessageDiscriminator(action) ==
    action

\* buildExecuteMessage / buildCreateChunkMessage: the fields in fixed order.
SerializeMessage(action, smartWallet, nonce, timestamp, policyIx, ixs, signers) ==
    <<MessageDiscriminator(action), smartWallet, ToString(nonce),
      ToString(timestamp)>>
        \o SerializeIx(policyIx)
        \o <<ToString(Len(ixs))>> \o SerializeIxs(ixs)
        \o <<ToString(Len(signers))>> \o signers

\* Faulty variant: the message names the payer only.
MessageSigners_PayerOnly(cpiSigners, payer) ==
    <<payer>>

\* [...(cpiSigners ?? []), params.payer]
MessageSigners(cpiSigners, payer) ==
    cpiSigners \o <<payer>>

\* buildAuthorizationMessage: the branch is chosen by the action variant;
\* both sign over the caller's signers followed by the payer.
AuthorizationMessage(a) ==
    SerializeMessage(a.action, a.smartWallet, a.nonceTime[1], a.nonceTime[2],
                     a.policyInstruction, a.cpiInstructions,
                     MessageSigners(a.cpiSigners, Payer))

\* createChunkTxn: the cpiHash written into create_chunk.
CommittedCpiHash(a) ==
    CpiHash(a.cpiInstructions, a.smartWallet,
            CreateChunkSigners(a.cpiSigners, Payer))

NoArgs ==
    [action |-> "none", smartWallet |-> "", nonceTime |-> <<0, 0>>,
     policyInstruction |-> Ix("", <<>>, <<>>), cpiInstructions |-> <<>>,
     cpiSigners |-> <<>>]

\* instructionToAccountMetas: one account meta per key, in order; an
\* account is marked as signer when it is one of the signers handed in.
InstructionToAccountMetas(ix, signers) ==
    [i \in 1..Len(ix.keys) |->
        Key(ix.keys[i].pubkey,
            \E j \in 1..Len(signers) : signers[j] = ix.keys[i].pubkey,
            ix.keys[i].isWritable)]

NoExecuteIx == [splitIndex |-> 0, remainingAccounts |-> <<>>]

\* Faulty variant: the split is taken after the CPI instruction's accounts.
ExecuteSplitIndex_Cpi(policyInstruction, cpiInstruction) ==
    Len(cpiInstruction.keys)

\* splitIndex: policyInstruction.keys.length
ExecuteSplitIndex(policyInstruction, cpiInstruction) ==
    Len(policyInstruction.keys)

\* executeTxn / buildExecuteIns: the args and remaining accounts of the
\* execute instruction.
BuildExecuteIns(a) ==
    IF a.action # "execute" THEN NoExecuteIx
    ELSE [splitIndex |->
              ExecuteSplitIndex(a.policyInstruction, a.cpiInstructions[1]),
          remainingAccounts |->
              InstructionToAccountMetas(a.policyInstruction, <<>>)
                \o InstructionToAccountMetas(a.cpiInstructions[1],
                        MessageSigners(a.cpiSigners, Payer))]

InitMsg ==
    /\ mArgs = <<NoArgs, NoArgs>>
    /\ mPc = "idle"
    /\ mMsg = <<<<>>, <<>>>>
    /\ mHash = <<<<>>, <<>>>>
    /\ mExec = <<NoExecuteIx, NoExecuteIx>>

\* Two calls are set side by side to compare what they produce.
EncodeCall ==
    /\ mPc = "idle"
    /\ mPc' = "args"
    /\ mArgs' \in EncoderArgs \X EncoderArgs
    /\ UNCHANGED <<mMsg, mHash, mExec>>

EncodeBoth ==
    /\ mPc = "args"
    /\ mPc' = "built"
    /\ mMsg' = <<AuthorizationMessage(mArgs[1]), AuthorizationMessage(mArgs[2])>>
    /\ mHash' = <<CommittedCpiHash(mArgs[1]), CommittedCpiHash(mArgs[2])>>
    /\ mExec' = <<BuildExecuteIns(mArgs[1]), BuildExecuteIns(mArgs[2])>>
    /\ UNCHANGED mArgs

NextMsg ==
    \/ EncodeCall /\ UNCHANGED notMsg
    \/ EncodeBoth /\ UNCHANGED notMsg

\* ---------------------------------------------------------------------
\* Client-side signature verification (verifySignatureBrowser)
\* ---------------------------------------------------------------------

MaxB64Len == 4

\* The characters a base64 argument is made of here: three of the alphabet
\* and one outside it.
B64Chars == {"A", "B", "/", "*"}

B64Value(c) ==
    CASE c = "A" -> 0 [] c = "B" -> 1 [] c = "/" -> 63 [] OTHER -> -1

B64Strings == UNION {[1..n -> B64Chars] : n \in 0..MaxB64Len}

\* atob throws on a character outside the alphabet and on a length that
\* leaves a single character of a group.
AtobThrows(str) ==
    \/ \E i \in 1..Len(str) : B64Value(str[i]) < 0
    \/ Len(str) % 4 = 1

\* base64ToBytes: atob, then one byte per character code; every group of
\* four characters gives three bytes, a rest of two or three gives one or two.
Base64ToBytes(str) ==
    LET v(i) == IF i <= Len(str) THEN B64Value(str[i]) ELSE 0
        b1 == v(1) * 4 + v(2) \div 16
        b2 == (v(2) % 16) * 16 + v(3) \div 4
        b3 == (v(3) % 4) * 64 + v(4)
    IN  CASE Len(str) = 0 -> <<>>
          [] Len(str) = 2 -> <<b1>>
          [] Len(str) = 3 -> <<b1, b2>>
          [] OTHER -> <<b1, b2, b3>>

\* The public keys handed in: a raw key with its 0x04 prefix, one without,
\* and bytes that are no P-256 key.
PublicKeys == {"raw65", "raw64", "short"}

\* importP256PublicKey: a 64 byte key gets the prefix; importKey rejects
\* what is not a raw P-256 point.
ImportKeyThrows(publicKey) ==
    publicKey = "short"

SignedPayloads == {<<"A", "B", "/", "A">>, <<"B", "B">>}

\* ECDSA over the payload bytes: the one byte string that verifies.
SignatureBytesOf(payloadBytes) ==
    [i \in 1..Len(payloadBytes) |-> (payloadBytes[i] + 1) % 256]

\* crypto.subtle.verify: true for the signature of the payload, false for
\* any other byte string, whatever its length.
SubtleVerify(signatureBytes, payloadBytes) ==
    signatureBytes = SignatureBytesOf(payloadBytes)

VerifyArgs ==
    [signedPayload : SignedPayloads, signature : B64Strings,
     publicKey : PublicKeys]

NoVerifyArgs == [signedPayload |-> <<>>, signature |-> <<>>, publicKey |-> ""]

Bool(b) == IF b THEN "true" ELSE "false"

\* verifySignatureBrowser up to its first await: the three arguments are
\* decoded, outside any try block.
VerifyCall ==
    /\ vPc = "idle"
    /\ vArgs' \in VerifyArgs
    /\ IF AtobThrows(vArgs'.signedPayload) \/ AtobThrows(vArgs'.signature)
       THEN vPc' = "done" /\ vRes' = Rejected("InvalidCharacterError")
       ELSE vPc' = "importKey" /\ vRes' = Pending

\* await importP256PublicKey(publicKeyBytes)
VerifyKeyImported ==
    /\ vPc = "importKey"
    /\ IF ImportKeyThrows(vArgs.publicKey)
       THEN vPc' = "done" /\ vRes' = Rejected("DataError")
       ELSE vPc' = "verify" /\ vRes' = Pending
    /\ UNCHANGED vArgs

\* return crypto.subtle.verify(...)
VerifyDone ==
    /\ vPc = "verify"
    /\ vPc' = "done"
    /\ vRes' = Resolved(Bool(SubtleVerify(Base64ToBytes(vArgs.signature),
                                          Base64ToBytes(vArgs.signedPayload))))
    /\ UNCHANGED vArgs

VerifyReturns ==
    /\ vPc = "done"
    /\ vPc' = "idle"
    /\ vArgs' = NoVerifyArgs
    /\ vRes' = Pending

InitVerify ==
    /\ vPc = "idle"
    /\ vArgs = NoVerifyArgs
    /\ vRes = Pending

NextVerify ==
    \/ VerifyCall /\ UNCHANGED notVerify
    \/ VerifyKeyImported /\ UNCHANGED notVerify
    \/ VerifyDone /\ UNCHANGED notVerify
    \/ VerifyReturns /\ UNCHANGED notVerify

\* ---------------------------------------------------------------------
\* The policy instruction a message or a transaction is built over
\* ---------------------------------------------------------------------

PolicyDatas == {"policyData1", "policyData2", "policyData3"}

NoPolicyIx == [programId |-> "", data |-> ""]

\* params.policyInstruction: null, or an instruction of the caller.
ProvidedPolicies ==
    {NoPolicyIx,
     [programId |-> "callerPolicy", data |-> "callerData"],
     [programId |-> "defaultPolicy", data |-> "policyData1"]}

PolicyMethods == {"buildAuthorizationMessage", "createChunkTxn", "executeTxn"}

NoPolicyCall == [method |-> "", provided |-> NoPolicyIx]

\* defaultPolicyProgram.buildCheckPolicyIx over the WalletState handed in.
BuildCheckPolicyIx(policyData) ==
    [programId |-> "defaultPolicy", data |-> policyData]

\* Faulty variant: the WalletState kept from the call before is used.
WalletStateForPolicy_Earlier(readNow, readBefore) ==
    readBefore

\* getWalletStateData is awaited inside the call; its result is what
\* the default policy instruction is built from.
WalletStateForPolicy(readNow, readBefore) ==
    readNow

\* policyResolver.resolveForExecute, and the CreateChunk branch of
\* buildAuthorizationMessage: the caller's instruction as it is, or the
\* default one.
ResolvePolicy(provided, policyData) ==
    IF provided # NoPolicyIx THEN provided ELSE BuildCheckPolicyIx(policyData)

\* Another client or device changes the wallet's policy data.
PolicyDataChanges ==
    /\ pLedger' \in PolicyDatas \ {pLedger}
    /\ pSeen' = IF pPc \in {"read", "resolve"} THEN pSeen \cup {pLedger'}
                ELSE pSeen
    /\ UNCHANGED <<pPc, pCall, pSnapshot, pPrev, pUsed>>

PolicyCall ==
    /\ pPc = "idle"
    /\ pPc' = "read"
    /\ pCall' \in [method : PolicyMethods, provided : ProvidedPolicies]
    /\ pSeen' = {pLedger}
    /\ UNCHANGED <<pLedger, pSnapshot, pPrev, pUsed>>

\* await this.getWalletStateData(smartWallet)
PolicyWalletStateRead ==
    /\ pPc = "read"
    /\ pPc' = "resolve"
    /\ pSnapshot' = WalletStateForPolicy(pLedger, pPrev)
    /\ UNCHANGED <<pLedger, pCall, pPrev, pSeen, pUsed>>

\* await resolveForExecute / buildCheckPolicyIx; the message or the wallet
\* instruction is built over the result.
PolicyResolved ==
    /\ pPc = "resolve"
    /\ pPc' = "done"
    /\ pUsed' = ResolvePolicy(pCall.provided, pSnapshot)
    /\ UNCHANGED <<pLedger, pCall, pSnapshot, pPrev, pSeen>>

PolicyReturns ==
    /\ pPc = "done"
    /\ pPc' = "idle"
    /\ pPrev' = pSnapshot
    /\ pCall' = NoPolicyCall
    /\ pUsed' = NoPolicyIx
    /\ pSeen' = {}
    /\ UNCHANGED <<pLedger, pSnapshot>>

InitPolicy ==
    /\ pLedger = "policyData1"
    /\ pPc = "idle"
    /\ pCall = NoPolicyCall
    /\ pSnapshot = "policyData1"
    /\ pPrev = "policyData1"
    /\ pSeen = {}
    /\ pUsed = NoPolicyIx

NextPolicy ==
    \/ PolicyDataChanges /\ UNCHANGED notPolicy
    \/ PolicyCall /\ UNCHANGED notPolicy
    \/ PolicyWalletStateRead /\ UNCHANGED notPolicy
    \/ PolicyResolved /\ UNCHANGED notPolicy
    \/ PolicyReturns /\ UNCHANGED notPolicy

\* ---------------------------------------------------------------------
\* Specifications
\* ---------------------------------------------------------------------

(***************************************************************************)
(* LazorkitWalletAdapter: connect and disconnect                           *)
(***************************************************************************)

AdapterCallIds == {1, 2, 3}

ReadyStates == {"Installed", "Unsupported"}

AdapterWallet == "walletA"

IdleAdapterCall == [op |-> "none", pc |-> "idle", res |-> "none"]

\* The steps of connect between its first await and its last.
AdapterConnectSteps == {"getWallet", "dialog", "lookup", "create", "save"}

\* `connected` of the base adapter: a public key is set.
AdapterConnected == aPublicKey # None

AdapterSet(c, rec) == aCall' = [aCall EXCEPT ![c] = rec]

AdapterSettle(c, res) ==
    AdapterSet(c, [aCall[c] EXCEPT !.pc = "done", !.res = res])

\* The outer finally of connect runs on every way out of its try block, the
\* guard's return included.
ConnectFinally == aConnecting' = FALSE

\* The constructor: the ready state is that of the environment.
AdapterConstruct ==
    /\ aReady = "unconstructed"
    /\ aReady' \in ReadyStates
    /\ UNCHANGED <<aConnecting, aPublicKey, aStorage, aCall>>

\* connect up to its first await.
AdapterConnectCall(c) ==
    /\ aReady \in ReadyStates
    /\ aCall[c].pc = "idle"
    /\ IF AdapterConnected \/ aConnecting
       THEN /\ ConnectFinally
            /\ AdapterSet(c, [op |-> "connect", pc |-> "done", res |-> "resolved"])
       ELSE IF aReady # "Installed"
       THEN /\ ConnectFinally
            /\ AdapterSet(c, [op |-> "connect", pc |-> "done", res |-> "rejected"])
       ELSE /\ aConnecting' = TRUE
            /\ AdapterSet(c, [op |-> "connect", pc |-> "getWallet", res |-> "none"])
    /\ UNCHANGED <<aReady, aPublicKey, aStorage>>

\* StorageManager.getWallet has resolved: a stored wallet ends the call.
AdapterStorageRead(c) ==
    /\ aCall[c].pc = "getWallet"
    /\ IF aStorage # None
       THEN /\ aPublicKey' = aStorage
            /\ ConnectFinally
            /\ AdapterSettle(c, "resolved")
       ELSE /\ AdapterSet(c, [aCall[c] EXCEPT !.pc = "dialog"])
            /\ UNCHANGED <<aPublicKey, aConnecting>>
    /\ UNCHANGED <<aReady, aStorage>>

\* A step of connect after the dialog was opened throws (getWallet catches
\* its own failures and never rejects).
AdapterConnectThrows(c) ==
    /\ aCall[c].pc \in AdapterConnectSteps \ {"getWallet"}
    /\ ConnectFinally
    /\ AdapterSettle(c, "rejected")
    /\ UNCHANGED <<aReady, aPublicKey, aStorage>>

\* dialogManager.openConnect has resolved.
AdapterDialogDone(c) ==
    /\ aCall[c].pc = "dialog"
    /\ AdapterSet(c, [aCall[c] EXCEPT !.pc = "lookup"])
    /\ UNCHANGED <<aReady, aConnecting, aPublicKey, aStorage>>

\* getSmartWalletByCredentialHash has resolved, with a wallet or without.
AdapterLookupDone(c) ==
    /\ aCall[c].pc = "lookup"
    /\ \E found \in BOOLEAN :
          AdapterSet(c, [aCall[c] EXCEPT
                            !.pc = IF found THEN "save" ELSE "create"])
    /\ UNCHANGED <<aReady, aConnecting, aPublicKey, aStorage>>

\* The wallet-creating transaction was built and the relay took it.
AdapterCreateDone(c) ==
    /\ aCall[c].pc = "create"
    /\ AdapterSet(c, [aCall[c] EXCEPT !.pc = "save"])
    /\ UNCHANGED <<aReady, aConnecting, aPublicKey, aStorage>>

\* StorageManager.saveWallet has resolved.
AdapterSaveDone(c) ==
    /\ aCall[c].pc = "save"
    /\ aStorage' = AdapterWallet
    /\ aPublicKey' = AdapterWallet
    /\ ConnectFinally
    /\ AdapterSettle(c, "resolved")
    /\ UNCHANGED aReady

\* disconnect up to its await.
AdapterDisconnectCall(c) ==
    /\ aReady \in ReadyStates
    /\ aCall[c].pc = "idle"
    /\ AdapterSet(c, [op |-> "disconnect", pc |-> "clearWallet", res |-> "none"])
    /\ UNCHANGED <<aReady, aConnecting, aPublicKey, aStorage>>

\* StorageManager.clearWallet has resolved; a removeItem that failed was
\* logged and swallowed, and the wallet is still in storage.
AdapterDisconnectDone(c) ==
    /\ aCall[c].pc = "clearWallet"
    /\ \E removed \in BOOLEAN :
          aStorage' = IF removed THEN None ELSE aStorage
    /\ aPublicKey' = None
    /\ AdapterSettle(c, "resolved")
    /\ UNCHANGED <<aReady, aConnecting>>

\* The caller has the settled promise.
AdapterReturns(c) ==
    /\ aCall[c].pc = "done"
    /\ AdapterSet(c, IdleAdapterCall)
    /\ UNCHANGED <<aReady, aConnecting, aPublicKey, aStorage>>

InitAdapter ==
    /\ aReady = "unconstructed"
    /\ aConnecting = FALSE
    /\ aPublicKey = None
    /\ aStorage = None
    /\ aCall = [c \in AdapterCallIds |-> IdleAdapterCall]

NextAdapter ==
    \/ AdapterConstruct /\ UNCHANGED notAdapter
    \/ \E c \in AdapterCallIds : AdapterConnectCall(c) /\ UNCHANGED notAdapter
    \/ \E c \in AdapterCallIds : AdapterStorageRead(c) /\ UNCHANGED notAdapter
    \/ \E c \in AdapterCallIds : AdapterConnectThrows(c) /\ UNCHANGED notAdapter
    \/ \E c \in AdapterCallIds : AdapterDialogDone(c) /\ UNCHANGED notAdapter
    \/ \E c \in AdapterCallIds : AdapterLookupDone(c) /\ UNCHANGED notAdapter
    \/ \E c \in AdapterCallIds : AdapterCreateDone(c) /\ UNCHANGED notAdapter
    \/ \E c \in AdapterCallIds : AdapterSaveDone(c) /\ UNCHANGED notAdapter
    \/ \E c \in AdapterCallIds : AdapterDisconnectCall(c) /\ UNCHANGED notAdapter
    \/ \E c \in AdapterCallIds : AdapterDisconnectDone(c) /\ UNCHANGED notAdapter
    \/ \E c \in AdapterCallIds : AdapterReturns(c) /\ UNCHANGED notAdapter

(***************************************************************************)
(* Hand-off of a built transaction to the relay: the call sites of         *)
(* createChunkTxn / executeChunkTxn and the relay method each one uses.    *)
(***************************************************************************)

\* action: signAndSendTransactionAction; actionV0: its first variant, which
\* compiles a v0 message for the dialog; adapter: sendTransaction.
HandoffSites ==
    {"action.create", "action.execute", "actionV0.create", "actionV0.execute",
     "adapter.create", "adapter.execute"}

\* payload.transactionOptions: addressLookupTableAccounts, computeUnitLimit.
HandoffPayloads ==
    [addressLookupTableAccounts : LookupTableOptions,
     computeUnitLimit : ComputeUnitLimits]

NoPayload ==
    [addressLookupTableAccounts |-> [defined |-> FALSE, tables |-> <<>>],
     computeUnitLimit |-> [defined |-> FALSE, units |-> 0]]

\* payload.transactionOptions?.addressLookupTableAccounts || []
PayloadLookupTables(payload) ==
    IF payload.addressLookupTableAccounts.defined
    THEN payload.addressLookupTableAccounts.tables ELSE <<>>

\* The TransactionBuilderOptions each site hands to the builder.  No
\* builder reads useVersionedTransaction.
SiteOptions(site, payload) ==
    IF site = "action.execute"
    THEN [computeUnitLimit |-> payload.computeUnitLimit,
          addressLookupTables |->
              [defined |-> TRUE, tables |-> PayloadLookupTables(payload)],
          recentBlockhash |-> None,
          useVersionedTransaction |-> FALSE]
    ELSE [computeUnitLimit |-> [defined |-> FALSE, units |-> 0],
          addressLookupTables |-> [defined |-> FALSE, tables |-> <<>>],
          recentBlockhash |-> None,
          useVersionedTransaction |-> site # "action.create"]

\* The form the site's relay call takes the transaction in: signAndSend
\* takes a legacy Transaction, signAndSendVersionedTransaction and the
\* adapter's `as VersionedTransaction` serialization a versioned one.
SiteSendsVersioned(site, payload) ==
    IF site = "action.create" THEN FALSE
    ELSE IF site = "action.execute"
    THEN Len(PayloadLookupTables(payload)) > 0
    ELSE TRUE

HandoffBuild ==
    /\ hPc = "idle"
    /\ \E site \in HandoffSites, payload \in HandoffPayloads :
          /\ hSite' = site
          /\ hPayload' = payload
          /\ hTx' = BuildTransaction(<<"walletIx">>,
                                     SiteOptions(site, payload),
                                     "latestBlockhash")
    /\ hPc' = "built"
    /\ UNCHANGED hSentAs

HandoffSend ==
    /\ hPc = "built"
    /\ hSentAs' = IF SiteSendsVersioned(hSite, hPayload)
                  THEN "versioned" ELSE "legacy"
    /\ hPc' = "sent"
    /\ UNCHANGED <<hSite, hPayload, hTx>>

HandoffReturns ==
    /\ hPc = "sent"
    /\ hPc' = "idle"
    /\ hSite' = None
    /\ hPayload' = NoPayload
    /\ hTx' = NoBuiltTx
    /\ hSentAs' = None

InitHandoff ==
    /\ hPc = "idle"
    /\ hSite = None
    /\ hPayload = NoPayload
    /\ hTx = NoBuiltTx
    /\ hSentAs = None

NextHandoff ==
    \/ HandoffBuild /\ UNCHANGED notHandoff
    \/ HandoffSend /\ UNCHANGED notHandoff
    \/ HandoffReturns /\ UNCHANGED notHandoff

(***************************************************************************)
(* Split indices: buildExecuteChunkIns hands Buffer.from(splitIndex) to    *)
(* execute_chunk.                                                          *)
(***************************************************************************)

MaxIxCount == 3

\* The number of accounts one CPI instruction may name.
KeyCounts == {0, 1, 100, 200}

SplitInputs == UNION {[1..n -> KeyCounts] : n \in 1..MaxIxCount}

RECURSIVE RunningTotal(_, _)
RunningTotal(counts, i) ==
    IF i = 0 THEN 0 ELSE counts[i] + RunningTotal(counts, i - 1)

\* calculateSplitIndex: after each instruction but the last, the number of
\* accounts of the instructions so far.
CalculateSplitIndex(counts) ==
    [i \in 1..(Len(counts) - 1) |-> RunningTotal(counts, i)]

\* Buffer.from(number[]): every entry is stored as one unsigned byte.
BufferFrom(numbers) ==
    [i \in 1..Len(numbers) |-> numbers[i] % 256]

SplitCall ==
    /\ xPc = "idle"
    /\ xKeys' \in SplitInputs
    /\ xPc' = "args"
    /\ UNCHANGED <<xSplit, xBytes>>

SplitBuilt ==
    /\ xPc = "args"
    /\ xSplit' = CalculateSplitIndex(xKeys)
    /\ xBytes' = BufferFrom(CalculateSplitIndex(xKeys))
    /\ xPc' = "built"
    /\ UNCHANGED xKeys

SplitReturns ==
    /\ xPc = "built"
    /\ xPc' = "idle"
    /\ xKeys' = <<>>
    /\ xSplit' = <<>>
    /\ xBytes' = <<>>

InitSplit ==
    /\ xPc = "idle"
    /\ xKeys = <<>>
    /\ xSplit = <<>>
    /\ xBytes = <<>>

NextSplit ==
    \/ SplitCall /\ UNCHANGED notSplit
    \/ SplitBuilt /\ UNCHANGED notSplit
    \/ SplitReturns /\ UNCHANGED notSplit

(***************************************************************************)
(* DialogManager (core/portal/DialogManager.ts) and the operations that    *)
(* create one.  Every instance listens to the window's message events.     *)
(***************************************************************************)

DialogManagers == {"d1", "d2"}

\* The operations that create a DialogManager, and the open* method each
\* one calls.
DialogSites ==
    {"connectAction", "signAndSendTransactionAction", "signMessageAction",
     "adapter.connect", "adapter.sendTransaction", "adapter.signMessage"}

SiteOpens(site) ==
    IF site \in {"connectAction", "adapter.connect"} THEN "openConnect"
    ELSE IF site = "signMessageAction" THEN "openSignMessage"
    ELSE "openSign"

\* The sites that await the ledger between `new DialogManager` and open*.
SiteAwaitsBeforeOpen(site) ==
    site \in {"adapter.sendTransaction", "adapter.signMessage"}

\* Whether the await before open* sits inside the try block whose finally
\* calls destroy(): it does in sendTransaction, not in signMessage.
SiteDestroysOnEarlyFailure(site) ==
    site = "adapter.sendTransaction"

\* The event an open* promise resolves on.
ResultEvent(open) ==
    IF open = "openConnect" THEN "connect-result" ELSE "sign-result"

OpenTimeoutMs(open) ==
    IF open = "openSign" THEN 30000 ELSE 60000

PortalHostname == <<"portal", "lazor", "sh">>

\* event.origin of a window message, as its dot- and slash-separated parts.
Origins ==
    {<<"https:", "portal", "lazor", "sh">>,
     <<"https:", "portal", "lazor", "sh", "evil", "com">>,
     <<"https:", "evil", "com">>}

PortalOrigin == <<"https:", "portal", "lazor", "sh">>

\* String.prototype.includes
Includes(str, part) ==
    \E i \in 1..(Len(str) - Len(part) + 1) :
        SubSeq(str, i, i + Len(part) - 1) = part

\* event.origin.includes(new URL(this.config.portalUrl).hostname)
OriginAccepted(origin) ==
    Includes(origin, PortalHostname)

\* type: event.data.type; error: event.data.error is set; for: the manager
\* whose portal page posted the message.
MessageTypes == {"connect-result", "sign-result", "error", "close", "other"}

WindowMessages ==
    [origin : Origins, type : MessageTypes, error : BOOLEAN,
     for : DialogManagers]

NoMessage ==
    [origin |-> <<>>, type |-> "", error |-> FALSE, for |-> ""]

\* stage: where the creating operation is; promise: the open* promise;
\* onResult / onError: the listeners open* registered; timer: its timeout
\* is armed, for timeoutMs milliseconds.
FreshManager ==
    [site |-> None, stage |-> "none", open |-> None, promise |-> "none",
     timeoutMs |-> 0, onResult |-> FALSE, onError |-> FALSE, timer |-> FALSE,
     dialog |-> FALSE, isDestroyed |-> FALSE, destroyCalls |-> 0]

\* cleanup(), then resolve or reject, which clear the timeout.
SettleWithCleanup(mgr, outcome) ==
    [mgr EXCEPT !.promise = outcome, !.onResult = FALSE, !.onError = FALSE,
                !.timer = FALSE]

\* openPopup(url).catch(reject): reject clears the timeout; cleanup() is
\* not called.
SettleOpenFailure(mgr) ==
    [mgr EXCEPT !.promise = "rejected", !.timer = FALSE]

CloseDialogOf(mgr) == [mgr EXCEPT !.dialog = FALSE]

\* this.emit('error', ...)
EmitError(mgr) ==
    IF mgr.onError /\ mgr.promise = "pending"
    THEN SettleWithCleanup(mgr, "rejected") ELSE mgr

\* this.emit(event, data) for a result event
EmitResult(mgr, event) ==
    IF mgr.onResult /\ mgr.promise = "pending"
          /\ ResultEvent(mgr.open) = event
    THEN SettleWithCleanup(mgr, "resolved") ELSE mgr

\* The listener setupMessageListener adds to the window, run on one event.
OnWindowMessage(mgr, msg) ==
    IF mgr.stage = "none" \/ ~OriginAccepted(msg.origin) THEN mgr
    ELSE IF msg.error THEN EmitError(mgr)
    ELSE IF msg.type \in {"connect-result", "sign-result"}
    THEN CloseDialogOf(EmitResult(mgr, msg.type))
    ELSE IF msg.type = "error" THEN EmitError(mgr)
    ELSE IF msg.type = "close" THEN CloseDialogOf(mgr)
    ELSE mgr

\* destroy(): a no-op once isDestroyed is set.
Destroy(mgr) ==
    IF mgr.isDestroyed
    THEN [mgr EXCEPT !.destroyCalls = 2]
    ELSE [mgr EXCEPT !.isDestroyed = TRUE, !.dialog = FALSE,
                     !.onResult = FALSE, !.onError = FALSE,
                     !.destroyCalls = 1]

DialogSet(d, mgr) ==
    /\ dMgr' = [dMgr EXCEPT ![d] = mgr]
    /\ dLast' = NoMessage

\* new DialogManager(config) inside an operation
DialogCreate(d, site) ==
    /\ dMgr[d].stage = "none"
    /\ DialogSet(d, [FreshManager EXCEPT !.site = site, !.stage = "created"])

\* getLatestBlockhash rejects before open* is called.
DialogEarlyFailure(d) ==
    /\ dMgr[d].stage = "created"
    /\ SiteAwaitsBeforeOpen(dMgr[d].site)
    /\ DialogSet(d, [(IF SiteDestroysOnEarlyFailure(dMgr[d].site)
                      THEN Destroy(dMgr[d]) ELSE dMgr[d])
                        EXCEPT !.stage = "settled"])

\* openConnect / openSign / openSignMessage up to the promise they return;
\* opening the popup or the modal may fail.
DialogOpen(d) ==
    /\ dMgr[d].stage = "created"
    /\ \E opened \in BOOLEAN :
          LET mgr == [dMgr[d] EXCEPT !.stage = "dialog",
                                     !.open = SiteOpens(dMgr[d].site),
                                     !.promise = "pending",
                                     !.timeoutMs =
                                         OpenTimeoutMs(SiteOpens(dMgr[d].site)),
                                     !.onResult = TRUE, !.onError = TRUE,
                                     !.timer = TRUE, !.dialog = opened]
          IN DialogSet(d, IF opened THEN mgr ELSE SettleOpenFailure(mgr))

\* One message event of the window: every instance's listener runs.
DialogWindowMessage ==
    /\ \E d \in DialogManagers : dMgr[d].stage = "dialog"
    /\ \E msg \in WindowMessages :
          /\ dMgr[msg.for].stage = "dialog"
          /\ dMgr' = [d \in DialogManagers |-> OnWindowMessage(dMgr[d], msg)]
          /\ dLast' = msg

\* The timeout set by open* fires.
DialogTimeout(d) ==
    /\ dMgr[d].timer
    /\ DialogSet(d, SettleWithCleanup(dMgr[d], "rejected"))

\* The close button, Escape or a click on the backdrop.
DialogUserCloses(d) ==
    /\ dMgr[d].dialog
    /\ DialogSet(d, CloseDialogOf(dMgr[d]))

\* The operation goes on after the promise settled, and its finally block
\* calls destroy().
DialogOperationSettles(d) ==
    /\ dMgr[d].stage = "dialog"
    /\ dMgr[d].promise \in {"resolved", "rejected"}
    /\ DialogSet(d, [Destroy(dMgr[d]) EXCEPT !.stage = "settled"])

\* A destroy() call on an instance already destroyed.
DialogDestroyAgain(d) ==
    /\ dMgr[d].stage = "settled"
    /\ dMgr[d].isDestroyed
    /\ dMgr[d].destroyCalls = 1
    /\ DialogSet(d, Destroy(dMgr[d]))

\* The operation's caller has its result; the slot is used again.
DialogForget(d) ==
    /\ dMgr[d].stage = "settled"
    /\ DialogSet(d, FreshManager)

InitDialog ==
    /\ dMgr = [d \in DialogManagers |-> FreshManager]
    /\ dLast = NoMessage

NextDialog ==
    \/ \E d \in DialogManagers, site \in DialogSites :
          DialogCreate(d, site) /\ UNCHANGED notDialog
    \/ \E d \in DialogManagers : DialogEarlyFailure(d) /\ UNCHANGED notDialog
    \/ \E d \in DialogManagers : DialogOpen(d) /\ UNCHANGED notDialog
    \/ DialogWindowMessage /\ UNCHANGED notDialog
    \/ \E d \in DialogManagers : DialogTimeout(d) /\ UNCHANGED notDialog
    \/ \E d \in DialogManagers : DialogUserCloses(d) /\ UNCHANGED notDialog
    \/ \E d \in DialogManagers :
          DialogOperationSettles(d) /\ UNCHANGED notDialog
    \/ \E d \in DialogManagers : DialogDestroyAgain(d) /\ UNCHANGED notDialog
    \/ \E d \in DialogManagers : DialogForget(d) /\ UNCHANGED notDialog

Init ==
    InitRelay /\ InitStore /\ InitChain /\ InitBuild /\ InitMsg /\ InitVerify
        /\ InitPolicy /\ InitAdapter /\ InitHandoff /\ InitSplit /\ InitDialog

SpecRelay == Init /\ [][NextRelay]_vars

\* An attempt's request settles and a backoff timer fires: the event loop
\* resumes the continuation of every settled promise.
FairRelay ==
    SpecRelay /\ WF_relayVars(RelayAttemptOk \/ RelayAttemptFail)
              /\ WF_relayVars(RelayDelayElapsed)

SpecStore == Init /\ [][NextStore]_vars

Spec == Init /\ [][NextChain]_vars

SpecBuild == Init /\ [][NextBuild]_vars

SpecMsg == Init /\ [][NextMsg]_vars

SpecVerify == Init /\ [][NextVerify]_vars

SpecPolicy == Init /\ [][NextPolicy]_vars

SpecAdapter == Init /\ [][NextAdapter]_vars

SpecHandoff == Init /\ [][NextHandoff]_vars

SpecSplit == Init /\ [][NextSplit]_vars

SpecDialog == Init /\ [][NextDialog]_vars

\* A started flow runs to its end: the JavaScript event loop resumes every
\* continuation whose awaited promise has settled.  Nothing obliges a
\* caller to start a flow or to call executeChunkTxn / closeChunkTxn.
FairSpec == Spec /\ \A f \in FlowIds : WF_chainVars(FlowContinue(f))

(***************************************************************************)
(* Properties of the relay retry loop                                      *)
(***************************************************************************)
IsAttempt(e) == e.ev = "attempt"
IsDelay(e) == e.ev = "delay"
RelayAttempts == SelectSeq(rLog, IsAttempt)
RelayDelays == SelectSeq(rLog, IsDelay)

\* C2: for maxRetries >= 1 the attempts are made one after the other
\* (numbered 1, 2, ...), every attempt before the last one made has failed
\* (the loop stops at the first success), never more than maxRetries are
\* made, a resolved call returns the value of the successful attempt, and a
\* rejected call has made all maxRetries attempts and raises the error of
\* the last one.
C2_RetryUntilFirstSuccess ==
    rMax >= 1 =>
      LET a == RelayAttempts
          n == Len(a)
      IN  /\ n <= rMax
          /\ \A i \in 1..n : a[i].k = i
          /\ \A i \in 1..n : i < n => a[i].out = "err"
          /\ (n > 0 /\ a[n].out = "ok") => rPc = "done"
          /\ rPc = "done" =>
                /\ n >= 1
                /\ rResult.st \in {"ok", "err"}
                /\ rResult.st = "ok" =>
                      a[n].out = "ok" /\ rResult.val = a[n].val
                /\ rResult.st = "err" =>
                      /\ n = rMax
                      /\ a[n].out = "err"
                      /\ rResult.val = a[n].val

\* all three attempts of a maxRetries = 3 call failed, with different
\* errors, and the call raised the last one
C2_Witness ==
    /\ rPc = "done" /\ rMax = 3
    /\ Len(RelayAttempts) = 3
    /\ RelayAttempts[1].val = "HttpError"
    /\ RelayAttempts[3].val = "RelayError"
    /\ rResult = Rejected("RelayError")

\* C3: a delay only ever follows a failed attempt k that is not the last
\* one and lasts exactly baseDelay * 2^(k-1); the next event after it is
\* attempt k+1; nothing precedes the first attempt and no delay follows the
\* last attempt of a settled call.  A call that fails twice and succeeds
\* on the third attempt has slept baseDelay, then 2*baseDelay, and returns
\* the third attempt's value.
C3_BackoffSchedule ==
    LET n == Len(rLog) IN
    /\ n > 0 => rLog[1].ev = "attempt" /\ rLog[1].k = 1
    /\ \A i \in 1..n :
          /\ rLog[i].ev = "delay" =>
                /\ i > 1
                /\ rLog[i-1].ev = "attempt" /\ rLog[i-1].out = "err"
                /\ rLog[i-1].k = rLog[i].k
                /\ rLog[i].val = rBase * (2 ^ (rLog[i].k - 1))
                /\ i < n => rLog[i+1].ev = "attempt" /\ rLog[i+1].k = rLog[i].k + 1
          /\ (rLog[i].ev = "attempt" /\ i < n) =>
                rLog[i+1].ev = "delay"
    /\ rPc = "done" =>
          /\ n > 0 => rLog[n].ev = "attempt"
          /\ Len(RelayDelays) = Len(RelayAttempts) - (IF n > 0 THEN 1 ELSE 0)
    /\ (rPc = "done" /\ Len(RelayAttempts) = 3 /\ rResult.st = "ok") =>
          /\ Len(RelayDelays) = 2
          /\ RelayDelays[1].val = rBase
          /\ RelayDelays[2].val = 2 * rBase
          /\ rResult.val = RelayAttempts[3].val

\* signAndSend failed twice and succeeded on the third attempt
C3_Witness ==
    /\ rPc = "done" /\ rMethod = "signAndSend" /\ rBase = DefaultBaseDelay
    /\ Len(RelayAttempts) = 3
    /\ RelayAttempts[1].out = "err" /\ RelayAttempts[2].out = "err"
    /\ RelayAttempts[3].out = "ok"
    /\ rResult = Resolved(RelayAttempts[3].val)
    /\ Len(RelayDelays) = 2


C1_SingleFlight ==
    /\ Cardinality({c \in StoreCalls : ConnectInFlight(c)}) <= 1
    /\ Cardinality({c \in StoreCalls : SignInFlight(c)}) <= 1

\* ---------------------------------------------------------------------
\* Properties of deferred execution
\* ---------------------------------------------------------------------

ChunkCommitted(n) == life[n] = "committed"

ChunkResolved(n) == life[n] \in {"consumed", "reclaimed"}

\* The digest the program recomputes for an execute_chunk transaction.
RecomputedHash(tx) == CpiHash(tx.instrs, Wallet, ProgramSigners(tx))

\* The instruction list a digest was taken over.
HashedInstructions(h) == h[1]

\* C4: an execute_chunk whose instructions hash to H' different from the H
\* committed in the Chunk it addresses is rejected: nothing is executed, the
\* Chunk stays committed with H, and its nonce stays pending.
C4_HashMismatchRejected ==
    [][\A n \in Nonces :
         ( /\ lastTx'.tx.kind = "execute_chunk"
           /\ lastTx'.tx.chunkNonce = n
           /\ ChunkCommitted(n)
           /\ RecomputedHash(lastTx'.tx) # chunkAcct[n].cpiHash )
         => /\ ~lastTx'.ok
            /\ UNCHANGED ledgerVars
            /\ life'[n] = "committed"
            /\ chunkAcct'[n].cpiHash = chunkAcct[n].cpiHash
            /\ execs'[n] = 0]_vars

C4_Witness ==
    /\ lastTx.tx.kind = "execute_chunk"
    /\ ~lastTx.ok
    /\ lastTx.tx.chunkNonce \in Nonces
    /\ ChunkCommitted(lastTx.tx.chunkNonce)
    /\ chunkAcct[lastTx.tx.chunkNonce].exists
    /\ lastTx.tx.refund = chunkAcct[lastTx.tx.chunkNonce].rentRefundAddress
    /\ RecomputedHash(lastTx.tx) # chunkAcct[lastTx.tx.chunkNonce].cpiHash

LifecycleSteps ==
    {<<"absent", "absent">>, <<"absent", "committed">>,
     <<"committed", "committed">>, <<"committed", "consumed">>,
     <<"committed", "reclaimed">>, <<"consumed", "consumed">>,
     <<"reclaimed", "reclaimed">>}

\* C5: the Chunk of a nonce goes absent -> committed -> (consumed |
\* reclaimed) and never back; it is executed at most once, never both
\* executed and closed, and its cpiHash and rentRefundAddress do not change
\* while it is committed.
C5_ChunkLifecycle ==
    [][\A n \in Nonces :
         /\ <<life[n], life'[n]>> \in LifecycleSteps
         /\ (ChunkCommitted(n) /\ life'[n] = "committed")
               => chunkAcct'[n] = chunkAcct[n]
         /\ execs'[n] <= 1
         /\ (life'[n] = "consumed") <=> (execs'[n] = 1)
         /\ chunkAcct'[n].exists <=> (life'[n] = "committed")]_vars

C5_Witness ==
    \E n, m \in Nonces :
        /\ life[n] = "consumed" /\ execs[n] = 1
        /\ life[m] = "reclaimed" /\ execs[m] = 0
        /\ ~chunkAcct[n].exists /\ ~chunkAcct[m].exists

\* C6: lastNonce starts at 0 and never decreases; an accepted create_chunk
\* uses the current lastNonce and increments it by exactly 1; at most one
\* Chunk is ever committed per nonce; a create_chunk that reuses a nonce
\* (the loser of two clients racing on the same nonce) is rejected.
C6_NonceMonotonic ==
    [][/\ lastNonce >= 0
       /\ lastNonce' >= lastNonce
       /\ (lastTx'.tx.kind = "create_chunk" /\ lastTx'.ok)
             => /\ lastTx'.tx.chunkNonce = lastNonce
                /\ lastTx'.tx.sigOver.nonce = lastNonce
                /\ life[lastNonce] = "absent"
                /\ life'[lastNonce] = "committed"
                /\ lastNonce' = lastNonce + 1
       /\ lastNonce' # lastNonce
             => (lastTx'.tx.kind = "create_chunk" /\ lastTx'.ok)
       /\ (lastTx'.tx.kind = "create_chunk"
             /\ (lastTx'.tx.chunkNonce # lastNonce
                   \/ lastTx'.tx.sigOver.nonce # lastNonce))
             => (~lastTx'.ok /\ UNCHANGED ledgerVars)
       /\ \A n \in Nonces : commits'[n] <= 1]_vars

C6_Witness ==
    /\ lastTx.tx.kind = "create_chunk"
    /\ ~lastTx.ok
    /\ lastTx.tx.chunkNonce \in Nonces
    /\ lastTx.tx.chunkNonce = lastTx.tx.sigOver.nonce
    /\ lastTx.tx.chunkNonce < lastNonce
    /\ commits[lastTx.tx.chunkNonce] = 1
    /\ \E f \in FlowIds :
          /\ flow[f].pc \in {"executeTxn", "execSend"}
          /\ flow[f].createTx.chunkNonce = lastTx.tx.chunkNonce

\* C7: every committed Chunk is eventually consumed or reclaimed, also
\* after the relay failed between create_chunk and execute_chunk.
C7_EventuallyResolved ==
    \A n \in Nonces : ChunkCommitted(n) ~> ChunkResolved(n)

\* C8: a committed Chunk at any nonce, however far lastNonce has advanced,
\* can be resolved through the client: executeChunkTxn with the Chunk's
\* original instructions builds a transaction that consumes it, and
\* closeChunkTxn with its nonce builds a transaction that reclaims it.
C8_AlwaysResolvable ==
    \A n \in Nonces :
        ChunkCommitted(n) =>
          /\ ChunkFetchable(ExecuteTargetNonce(lastNonce))
          /\ BuildExecuteChunkTxn(
                 HashedInstructions(chunkAcct[n].cpiHash), <<>>).chunkNonce = n
          /\ ExecuteChunkAccepts(BuildExecuteChunkTxn(
                 HashedInstructions(chunkAcct[n].cpiHash), <<>>))
          /\ AssertPositiveBN(n)
          /\ ChunkFetchable(CloseTargetNonce(n))
          /\ BuildCloseChunkTxn(n).chunkNonce = n
          /\ CloseChunkAccepts(BuildCloseChunkTxn(n))

\* C9: the nonce carried by a message that buildAuthorizationMessage builds
\* is the wallet's lastNonce at the moment the message is built: the value
\* fetched is not held across a suspension point.
C9_FreshNonceInMessage ==
    [][\A f \in FlowIds :
         (flow[f].msg = NoMsg /\ flow'[f].msg # NoMsg)
            => flow'[f].msg.nonce = lastNonce]_vars

\* C10: in a signAndSendTransaction / sendTransaction flow, the instruction
\* list and timestamp of the message the user signed are the ones used for
\* the cpiHash and arguments of create_chunk, and the instruction list
\* submitted in execute_chunk is that same list; what the flow commits is
\* what was signed.
C10_SignedContentIsSubmitted ==
    \A f \in FlowIds :
        /\ flow[f].signed # NoMsg
              => /\ flow[f].signed = flow[f].msg
                 /\ flow[f].signed.ts = flow[f].ts
                 /\ HashedInstructions(flow[f].signed.cpiHash) = flow[f].instrs
        /\ flow[f].createTx # NoTxn
              => /\ flow[f].createTx.sigOver = flow[f].signed
                 /\ flow[f].createTx.ts = flow[f].signed.ts
                 /\ flow[f].createTx.cpiHash = flow[f].signed.cpiHash
        /\ flow[f].execTx # NoTxn
              => flow[f].execTx.instrs
                    = HashedInstructions(flow[f].signed.cpiHash)
        /\ (flow[f].createTx # NoTxn
              /\ lastTx = [tx |-> flow[f].createTx, ok |-> TRUE])
              => chunkAcct[flow[f].createTx.chunkNonce].cpiHash
                    = flow[f].signed.cpiHash

C10_Witness ==
    \E f \in FlowIds :
        /\ flow[f].pc = "execSend"
        /\ flow[f].execTx.instrs = HashedInstructions(flow[f].signed.cpiHash)
        /\ flow[f].createTx.ts = flow[f].signed.ts
        /\ clock # flow[f].ts
        /\ ChunkCommitted(flow[f].createTx.chunkNonce)
        /\ \E g \in FlowIds : g # f /\ flow[g].instrs \notin {<<>>, flow[f].instrs}

\* The create_chunk transactions that carry the signature over msg.
Carries(tx, msg) == tx.kind = "create_chunk" /\ tx.sigOver = msg

\* C18: the signature a flow obtained is placed in that flow's create_chunk
\* transaction and in no execute_chunk transaction, is dropped when the
\* flow settles, and the ledger accepts at most one transaction carrying
\* it: a create_chunk is accepted only for a nonce nothing was committed at.
C18_SignatureConsumedOnce ==
    /\ \A f \in FlowIds :
          /\ flow[f].execTx.sigOver = NoMsg
          /\ flow[f].signed # NoMsg
                => /\ flow[f].pc \in {"createSend", "executeTxn", "execSend"}
                   /\ Carries(flow[f].createTx, flow[f].signed)
          /\ flow[f].pc = "idle"
                => flow[f].signed = NoMsg /\ flow[f].createTx = NoTxn
    /\ \A n \in Nonces : commits[n] <= 1
    /\ (lastTx.ok /\ lastTx.tx.kind = "create_chunk")
          => /\ lastTx.tx.sigOver.nonce = lastTx.tx.chunkNonce
             /\ lastNonce = lastTx.tx.chunkNonce + 1

\* A second transaction carrying a signature over the same message as one
\* already accepted is processed and rejected.
C18_Witness ==
    \E f \in FlowIds :
        /\ flow[f].pc \in {"executeTxn", "execSend"}
        /\ commits[flow[f].signed.nonce] = 1
        /\ Carries(lastTx.tx, flow[f].signed)
        /\ lastTx.tx = flow[f].createTx
        /\ ~lastTx.ok

\* C27: the nonce in the message a flow had signed is the nonce its
\* create_chunk instruction derives the Chunk address from.
C27_MessageNonceIsChunkNonce ==
    \A f \in FlowIds :
        flow[f].createTx # NoTxn
            => flow[f].createTx.chunkNonce = flow[f].signed.nonce

\* C28: the Chunk a flow's execute_chunk transaction addresses is the one
\* its own create_chunk addressed.
C28_ExecuteTargetsOwnChunk ==
    \A f \in FlowIds :
        flow[f].pc = "execSend"
            => flow[f].execTx.chunkNonce = flow[f].createTx.chunkNonce

\* C29: a flow goes on to build its execute_chunk transaction only in a
\* step in which the ledger accepted its create_chunk.
C29_ExecuteBuiltAfterCreateConfirmed ==
    [][\A f \in FlowIds :
          (flow[f].pc = "createSend" /\ flow'[f].pc = "executeTxn")
              => (lastTx'.tx = flow[f].createTx /\ lastTx'.ok)]_vars

HashedSigners(h) == h[3]

\* C26: the signers a flow's execute_chunk transaction names for the
\* downstream accounts are the signers its create_chunk hashed (the
\* caller's signers followed by the payer).
C26_ExecuteAppliesCommittedSigners ==
    \A f \in FlowIds :
        flow[f].pc = "execSend"
            => flow[f].execTx.cpiSigners
                  = HashedSigners(flow[f].createTx.cpiHash)

\* ---------------------------------------------------------------------
\* Transaction builders
\* ---------------------------------------------------------------------

BuiltOk == bPc = "done" /\ bRes = Resolved("transaction")

\* Zero-based positions of the instructions of one kind in the built list.
PositionsOf(kind) ==
    {i - 1 : i \in {j \in 1..Len(bTx.instructions) :
                        bTx.instructions[j].kind = kind}}

\* C11: in the transaction executeTxn or createChunkTxn returns, the
\* verifyInstructionIndex written into the wallet instruction is the
\* position of the passkey verification instruction: 0 when no
\* computeUnitLimit is given, 1 when one is given and the compute-budget
\* instruction is at position 0; the wallet instruction comes right after.
C11_VerifyInstructionIndex ==
    (BuiltOk /\ Authenticated(bMethod)) =>
        LET cu == bOpts.computeUnitLimit
            idx == IF cu.defined THEN 1 ELSE 0
        IN  /\ PositionsOf("passkeyVerification") = {idx}
            /\ PositionsOf(bMethod) = {idx + 1}
            /\ bTx.instructions[idx + 2].arg = idx
            /\ cu.defined <=> PositionsOf("setComputeUnitLimit") = {0}
            /\ ~cu.defined <=> PositionsOf("setComputeUnitLimit") = {}
            /\ Len(bTx.instructions) = idx + 2

C11_Witness ==
    /\ BuiltOk
    /\ bMethod = "createChunkTxn"
    /\ bOpts.computeUnitLimit = [defined |-> TRUE, units |-> 0]
    /\ bTx.instructions[3].arg = 1

\* C12: buildTransaction returns the versioned form, isVersioned true,
\* exactly when addressLookupTables holds at least one table, the legacy
\* form when the option is absent or empty, and signs nothing.
C12_VersionedIffLookupTables ==
    BuiltOk =>
        /\ bTx.isVersioned <=>
              (bOpts.addressLookupTables.defined
                  /\ Len(bOpts.addressLookupTables.tables) >= 1)
        /\ bTx.signatures = <<>>

C12_Witness ==
    /\ BuiltOk
    /\ bOpts.addressLookupTables = [defined |-> TRUE, tables |-> <<>>]
    /\ ~bTx.isVersioned

C14_SignatureFailureNotRetried ==
    \A i \in 1..Len(RelayAttempts) :
        RelayAttempts[i].val = SignatureVerificationFailed
            => i = Len(RelayAttempts)

\* ---------------------------------------------------------------------
\* Wallet store: guard rejections and swallowed failures
\* ---------------------------------------------------------------------

GuardErrors ==
    {"Already connecting", "Already signing", "No wallet connected"}

GuardRejected(call) ==
    call.pc = "done" /\ call.res.st = "err" /\ call.res.val \in GuardErrors

\* C15: a connect or sign call rejected by a guard settles in the step that
\* issued it, without reaching the storage read, the dialog, the ledger or
\* the relay, and leaves wallet, error, isConnecting, isSigning, the stored
\* wallet and every other call as they were.
C15_GuardRejectionLeavesState ==
    [][\A c \in StoreCalls :
          (GuardRejected(sCall'[c]) /\ sCall'[c] # sCall[c]) =>
              /\ sCall[c].pc = "idle"
              /\ UNCHANGED <<sWallet, sError, sConnecting, sSigning, sLoading,
                             sStorage>>
              /\ \A d \in StoreCalls \ {c} : sCall'[d] = sCall[d]]_vars

C15_Witness ==
    \E c, d \in StoreCalls :
        /\ sCall[c].kind = "signMessage"
        /\ sCall[c].res = Rejected("Already signing")
        /\ sCall[d].kind = "signAndSendTransaction"
        /\ sCall[d].pc = "dialog"
        /\ sSigning
        /\ sError = None

\* C16: a call during which a storage write or removal failed settles
\* rejected, with the failure in the store's error field.
C16_NoSwallowedFailure ==
    \A c \in StoreCalls :
        (sCall[c].pc = "done" /\ sCall[c].swallowed) =>
            /\ sCall[c].res.st = "err"
            /\ sError # None

\* C17: an attempt of signAndSend / signAndSendVersionedTransaction that
\* was reported as failed has put nothing on the ledger.
C17_FailedAttemptIsNoOp ==
    \A i \in 1..Len(RelayAttempts) :
        RelayAttempts[i].out = "err" => RelayAttempts[i].k \notin rLanded

\* ---------------------------------------------------------------------
\* Encoders
\* ---------------------------------------------------------------------

Encoded == mPc = "built"

Pubkeys(keys) == [i \in 1..Len(keys) |-> keys[i].pubkey]

\* C21: in the execute instruction, splitIndex is the number of accounts of
\* the policy instruction, and the remaining accounts are the policy
\* instruction's accounts at positions [0, splitIndex) followed by the CPI
\* instruction's accounts from splitIndex on.
C21_SplitIndex ==
    Encoded =>
        \A i \in {1, 2} :
            mArgs[i].action = "execute" =>
                LET policy == mArgs[i].policyInstruction
                    cpi == mArgs[i].cpiInstructions[1]
                    split == mExec[i].splitIndex
                    rest == mExec[i].remainingAccounts
                IN  /\ split = Len(policy.keys)
                    /\ Len(rest) = split + Len(cpi.keys)
                    /\ Pubkeys(SubSeq(rest, 1, split)) = Pubkeys(policy.keys)
                    /\ Pubkeys(SubSeq(rest, split + 1, Len(rest)))
                          = Pubkeys(cpi.keys)

\* A policy instruction with two accounts before a CPI instruction with one.
C21_Witness ==
    /\ Encoded
    /\ mArgs[1].action = "execute"
    /\ Len(mArgs[1].policyInstruction.keys) = 2
    /\ mArgs[1].cpiInstructions = <<IxB>>
    /\ mExec[1].splitIndex = 2
    /\ Len(mExec[1].remainingAccounts) = 3

\* C22: the smartWallet createSmartWalletTxn returns is the address derived
\* from the smartWalletId it returns, and that id is the caller's
\* smartWalletId whenever one is given (0 included), a generated one
\* otherwise; the derivation gives one address per id.
C22_WalletAddressFromId ==
    (BuiltOk /\ bMethod = "createSmartWalletTxn") =>
        /\ bOut.smartWallet = GetSmartWalletPubkey(bOut.smartWalletId)
        /\ bParams.smartWalletId.defined
              => bOut.smartWalletId = bParams.smartWalletId.id
        /\ ~bParams.smartWalletId.defined
              => bOut.smartWalletId \in GeneratedWalletIds
        /\ \A id \in GeneratedWalletIds \cup {0, 42} :
              GetSmartWalletPubkey(id) = bOut.smartWallet
                  <=> id = bOut.smartWalletId

C22_Witness ==
    /\ BuiltOk
    /\ bMethod = "createSmartWalletTxn"
    /\ bParams.smartWalletId = [defined |-> TRUE, id |-> 0]
    /\ bOut = [smartWalletId |-> 0, smartWallet |-> SmartWalletPda(0)]

\* ---------------------------------------------------------------------
\* Client-side signature verification
\* ---------------------------------------------------------------------

\* C23: a call with a well-formed payload and key and a signature that is
\* not the signature of the payload resolves to false.
C23_MalformedSignatureGivesFalse ==
    (/\ vPc = "done"
     /\ ~AtobThrows(vArgs.signedPayload)
     /\ ~ImportKeyThrows(vArgs.publicKey)
     /\ \/ AtobThrows(vArgs.signature)
        \/ ~SubtleVerify(Base64ToBytes(vArgs.signature),
                         Base64ToBytes(vArgs.signedPayload)))
        => vRes = Resolved("false")

\* ---------------------------------------------------------------------
\* Policy instruction
\* ---------------------------------------------------------------------

\* C24: a call handed a policy instruction builds over exactly that
\* instruction; a call handed none builds over the default instruction made
\* from a WalletState the ledger held during that call.
C24_PolicyInstructionSource ==
    pPc = "done" =>
        /\ pCall.provided # NoPolicyIx => pUsed = pCall.provided
        /\ pCall.provided = NoPolicyIx
              => \E d \in pSeen : pUsed = BuildCheckPolicyIx(d)

\* The policy data changed since the call before; the default instruction
\* carries the new data.
C24_Witness ==
    /\ pPc = "done"
    /\ pCall.provided = NoPolicyIx
    /\ pCall.method = "createChunkTxn"
    /\ pPrev = "policyData1"
    /\ pSeen = {"policyData2"}
    /\ pUsed = BuildCheckPolicyIx("policyData2")

\* ---------------------------------------------------------------------
\* Wallet store: the stored session
\* ---------------------------------------------------------------------

\* C25: once a disconnect has resolved and nothing else is running or has
\* connected since, no wallet is left in storage, so that the next connect
\* opens the dialog.
C25_DisconnectForgetsWallet ==
    \A c \in StoreCalls :
        (/\ sCall[c].kind = "disconnect"
         /\ sCall[c].pc = "done"
         /\ sCall[c].res.st = "ok"
         /\ \A d \in StoreCalls \ {c} : sCall[d].pc = "idle"
         /\ sWallet = None)
            => sStorage = None

\* C31: the step in which a disconnect resolves leaves isConnecting as it
\* was while a connect is in flight, and isSigning as it was while a sign is
\* in flight.
C31_DisconnectKeepsInFlightFlags ==
    [][\A c \in StoreCalls :
          (/\ sCall[c].kind = "disconnect"
           /\ sCall[c].pc = "clearWallet"
           /\ sCall'[c].pc = "done")
              => /\ (\E d \in StoreCalls : ConnectInFlight(d))
                        => sConnecting' = sConnecting
                 /\ (\E d \in StoreCalls : SignInFlight(d))
                        => sSigning' = sSigning]_vars

ConnectRejectedIn(c) ==
    /\ sCall[c].kind = "connect"
    /\ InFlight(c)
    /\ sCall'[c].pc = "done"
    /\ sCall'[c].res.st = "err"

SettlesIn(c) == InFlight(c) /\ sCall'[c].pc = "done"

\* C33: the step in which a connect or sign call that had set its flag
\* settles leaves that flag false, and a flag is true only while a call of
\* its kind is in flight, so no guard is left set by a finished call.
C33_FlagClearedOnSettle ==
    [][/\ \A c \in StoreCalls :
             /\ (sCall[c].kind = "connect" /\ SettlesIn(c)) => ~sConnecting'
             /\ (sCall[c].kind \in {"signAndSendTransaction", "signMessage"}
                    /\ SettlesIn(c)) => ~sSigning'
       /\ sConnecting' => \E c \in StoreCalls : ConnectInFlight(c)'
       /\ sSigning' => \E c \in StoreCalls : SignInFlight(c)']_vars

\* A sign call has failed after setting isSigning, and the flag is false.
C33_Witness ==
    \E c \in StoreCalls :
        /\ sCall[c].kind \in {"signAndSendTransaction", "signMessage"}
        /\ sCall[c].pc = "done"
        /\ sCall[c].res = Rejected(ActionFailure)
        /\ ~sSigning
        /\ \A d \in StoreCalls \ {c} : sCall[d].pc = "idle"

(***************************************************************************)
(* Properties of LazorkitWalletAdapter.connect                             *)
(***************************************************************************)

ConnectsOutstanding ==
    {c \in AdapterCallIds :
        aCall[c].op = "connect" /\ aCall[c].pc \in AdapterConnectSteps}

\* C30: while a connect call is outstanding, `connecting` is true and no
\* second connect call is inside the connection flow.
C30_OneConnectionFlow ==
    ConnectsOutstanding # {}
        => aConnecting /\ Cardinality(ConnectsOutstanding) = 1

(***************************************************************************)
(* Properties of the hand-off to the relay                                 *)
(***************************************************************************)

\* C34: a transaction is sent in the versioned form exactly when the
\* builder returned it with isVersioned = true.
C34_SentInBuiltForm ==
    hPc = "sent" => ((hSentAs = "versioned") <=> hTx.isVersioned)

(***************************************************************************)
(* Properties of the split indices                                         *)
(***************************************************************************)

\* C35: every byte handed to execute_chunk is the running account total
\* calculateSplitIndex computed at that position.
C35_SplitIndexBytes ==
    xPc = "built"
        => /\ Len(xBytes) = Len(xSplit)
           /\ \A i \in 1..Len(xSplit) :
                 xBytes[i] = RunningTotal(xKeys, i)

(***************************************************************************)
(* Properties of DialogManager                                             *)
(***************************************************************************)

DialogSettled(d) == dMgr[d].promise \in {"resolved", "rejected"}

\* C36: a message the portal posted for one pending operation leaves every
\* other pending operation's promise pending and its dialog as it was.
C36_MessageSettlesOnlyItsOperation ==
    [][(dLast' # NoMessage /\ dLast'.origin = PortalOrigin)
          => \A d \in DialogManagers \ {dLast'.for} :
                dMgr[d].promise = "pending"
                    => /\ dMgr'[d].promise = "pending"
                       /\ dMgr'[d].dialog = dMgr[d].dialog]_vars

\* C37: a window message whose origin is not the portal's origin changes
\* no DialogManager: no promise settles and no dialog closes.
C37_OnlyPortalOrigin ==
    [][(dLast' # NoMessage /\ dLast'.origin # PortalOrigin)
          => dMgr' = dMgr]_vars

\* C38: once an open* promise has settled, its result and error listeners
\* are removed and its timer is cleared.
C38_SettledPromiseIsCleanedUp ==
    \A d \in DialogManagers :
        DialogSettled(d)
            => ~dMgr[d].onResult /\ ~dMgr[d].onError /\ ~dMgr[d].timer

\* C39: when the operation that created a DialogManager has settled,
\* destroy() has been called on it.
C39_DestroyedWhenSettled ==
    \A d \in DialogManagers :
        dMgr[d].stage = "settled" => dMgr[d].isDestroyed

====
